---------------------------- MODULE Spec2Model ----------------------------
(***************************************************************************)
(* Model of the jupusd SDK quote functions (packages/sdk/src/quote) and of *)
(* the period-limit check (packages/cli/src/index.ts).                     *)
(*                                                                         *)
(* The quote functions compute on JavaScript BigInt values, which have no  *)
(* width.  TLC's integers are 32 bits wide, and already the constant       *)
(* PEG_PRICE_SCALE * ORACLE_PRICE_SCALE = 10^12 does not fit, so a BigInt  *)
(* that is the result of arithmetic is carried as a sequence of limbs in   *)
(* base 10^4, least significant first, without leading zero limbs (the     *)
(* empty sequence is 0).  Inputs are small enough to be TLA+ integers.     *)
(***************************************************************************)
EXTENDS Integers, Sequences, FiniteSets, TLC

(***************************************************************************)
(* BigInt arithmetic on naturals: + - * / % and comparison.                *)
(***************************************************************************)
Base == 10 ^ 4

RECURSIVE BigOf(_)
BigOf(n) == IF n = 0 THEN << >> ELSE << n % Base >> \o BigOf(n \div Base)

RECURSIVE Norm(_)
Norm(s) ==
  IF s = << >> THEN << >>
  ELSE IF s[Len(s)] = 0 THEN Norm(SubSeq(s, 1, Len(s) - 1)) ELSE s

RECURSIVE AddC(_, _, _)
AddC(a, b, c) ==
  IF a = << >> /\ b = << >> THEN (IF c = 0 THEN << >> ELSE << c >>)
  ELSE LET x == IF a = << >> THEN 0 ELSE Head(a)
           y == IF b = << >> THEN 0 ELSE Head(b)
           s == x + y + c
       IN  << s % Base >> \o
           AddC(IF a = << >> THEN a ELSE Tail(a),
                IF b = << >> THEN b ELSE Tail(b), s \div Base)

BigAdd(a, b) == AddC(a, b, 0)

RECURSIVE SubB(_, _, _)
SubB(a, b, c) ==
  IF a = << >> THEN << >>
  ELSE LET y == IF b = << >> THEN 0 ELSE Head(b)
           s == Head(a) - y - c
       IN  << IF s < 0 THEN s + Base ELSE s >> \o
           SubB(Tail(a), IF b = << >> THEN b ELSE Tail(b),
                IF s < 0 THEN 1 ELSE 0)

\* a - b for a >= b
BigSub(a, b) == Norm(SubB(a, b, 0))

RECURSIVE CmpFrom(_, _, _)
CmpFrom(a, b, i) ==
  IF i = 0 THEN 0
  ELSE IF a[i] < b[i] THEN -1
  ELSE IF a[i] > b[i] THEN 1
  ELSE CmpFrom(a, b, i - 1)

\* -1, 0, 1 as a < b, a = b, a > b
BigCmp(a, b) ==
  IF Len(a) < Len(b) THEN -1
  ELSE IF Len(a) > Len(b) THEN 1
  ELSE CmpFrom(a, b, Len(a))

BigLt(a, b) == BigCmp(a, b) < 0
BigLe(a, b) == BigCmp(a, b) <= 0

RECURSIVE MulC(_, _, _)
MulC(a, k, c) ==
  IF a = << >> THEN BigOf(c)
  ELSE LET s == Head(a) * k + c
       IN  << s % Base >> \o MulC(Tail(a), k, s \div Base)

\* a * k for a limb k
MulSmall(a, k) == IF k = 0 THEN << >> ELSE MulC(a, k, 0)

ShiftLimb(a) == IF a = << >> THEN << >> ELSE << 0 >> \o a

RECURSIVE BigMul(_, _)
BigMul(a, b) ==
  IF a = << >> \/ b = << >> THEN << >>
  ELSE BigAdd(MulSmall(a, Head(b)), ShiftLimb(BigMul(a, Tail(b))))

\* the limb q with q*d <= r < (q+1)*d, given lo*d <= r < hi*d
RECURSIVE QLimb(_, _, _, _)
QLimb(r, d, lo, hi) ==
  IF hi = lo + 1 THEN lo
  ELSE LET mid == (lo + hi) \div 2
       IN  IF BigLe(MulSmall(d, mid), r) THEN QLimb(r, d, mid, hi)
           ELSE QLimb(r, d, lo, mid)

\* long division of the i most significant limbs still to take from n
RECURSIVE DivLoop(_, _, _, _, _)
DivLoop(n, d, i, q, r) ==
  IF i = 0 THEN [quot |-> Norm(q), rem |-> r]
  ELSE LET r1 == Norm(<< n[i] >> \o r)
           ql == QLimb(r1, d, 0, Base)
       IN  DivLoop(n, d, i - 1, << ql >> \o q, BigSub(r1, MulSmall(d, ql)))

\* n / d and n % d of BigInt, for d > 0
BigDivMod(n, d) == DivLoop(n, d, Len(n), << >>, << >>)
\* n / d rounding up
BigDivCeil(n, d) ==
  BigAdd(BigDivMod(n, d).quot, IF BigDivMod(n, d).rem # << >> THEN << 1 >> ELSE << >>)
BigDiv(n, d) == BigDivMod(n, d).quot
BigMod(n, d) == BigDivMod(n, d).rem

RECURSIVE BigPow10(_)
BigPow10(e) == IF e = 0 THEN << 1 >> ELSE MulSmall(BigPow10(e - 1), 10)


(***************************************************************************)
(* JavaScript values of type bigint | number.  cls tells an integer from a *)
(* fraction (v + 0.5), NaN and +Infinity; a bigint is always an integer.   *)
(***************************************************************************)
BigIntV(n) == [ty |-> "bigint", cls |-> "int", v |-> n]
NumberV(n) == [ty |-> "number", cls |-> "int", v |-> n]
FracV(n)   == [ty |-> "number", cls |-> "frac", v |-> n]
NaNV       == [ty |-> "number", cls |-> "nan", v |-> 0]
InfV       == [ty |-> "number", cls |-> "inf", v |-> 0]

\* Number.isFinite(value), Number.isInteger(value): false of a bigint
NumberIsFinite(value) == value.ty = "number" /\ value.cls \in {"int", "frac"}
NumberIsInteger(value) == value.ty = "number" /\ value.cls = "int"
\* value < 0 of a number (NaN compares false)
NumberIsNegative(value) == value.cls \in {"int", "frac"} /\ value.v < 0

\* toBigInt throws on a number that is not a finite integer
toBigIntThrows(value) ==
  value.ty # "bigint" /\ (~NumberIsFinite(value) \/ ~NumberIsInteger(value))
toBigInt(value) == value.v

ErrNotFiniteInteger ==
  "Numeric inputs must be finite integers to avoid precision loss"

\* ensureNonNegativeInteger and pow10 throw alike
ensureNonNegativeIntegerThrows(value) ==
  ~NumberIsInteger(value) \/ NumberIsNegative(value)
pow10(exponent) == BigPow10(exponent)

BASIS_POINTS == 10000
PEG_PRICE_DECIMALS == 4
ORACLE_PRICE_DECIMALS == 8
PEG_PRICE_SCALE == BigPow10(PEG_PRICE_DECIMALS)
ORACLE_PRICE_SCALE == BigPow10(ORACLE_PRICE_DECIMALS)
\* 10n ** BigInt(ORACLE_PRICE_DECIMALS - PEG_PRICE_DECIMALS)
BoundScale == 10 ^ (ORACLE_PRICE_DECIMALS - PEG_PRICE_DECIMALS)

\* ceilBigInt rounding down
ceilBigIntFloor(n, d) == BigDiv(n, d)

ceilBigInt(n, d) ==
  BigAdd(BigDiv(n, d), IF BigMod(n, d) # << >> THEN << 1 >> ELSE << >>)

Threw(msg) == [state |-> "threw", error |-> msg]
Returned(q) == [state |-> "returned", quote |-> q]
NotCalled == [state |-> "idle"]

(***************************************************************************)
(* packages/sdk/src/quote/mint.ts                                          *)
(***************************************************************************)
computeMintFeeThrows(mintFeeRate) ==
  ~NumberIsInteger(mintFeeRate) \/ NumberIsNegative(mintFeeRate)
computeMintFee(amount, mintFeeRate) ==
  ceilBigInt(BigMul(amount, BigOf(mintFeeRate.v)), BigOf(BASIS_POINTS))

\* computeOracleAmount with the two token scales exchanged
mintComputeOracleAmountSwapped(amount, oraclePriceUsd, pegPriceUsd, lpScale, vaultScale) ==
  BigDiv(BigMul(BigMul(BigMul(amount, oraclePriceUsd), vaultScale), PEG_PRICE_SCALE),
         BigMul(BigMul(pegPriceUsd, lpScale), ORACLE_PRICE_SCALE))

mintComputeOracleAmount(amount, oraclePriceUsd, pegPriceUsd, lpScale, vaultScale) ==
  BigDiv(BigMul(BigMul(BigMul(amount, oraclePriceUsd), lpScale), PEG_PRICE_SCALE),
         BigMul(BigMul(pegPriceUsd, vaultScale), ORACLE_PRICE_SCALE))

\* computeOneToOneAmount without PEG_PRICE_SCALE
mintComputeOneToOneAmountUnscaled(netAmount, pegPriceUsd, lpScale, vaultScale) ==
  BigDiv(BigMul(netAmount, lpScale), BigMul(pegPriceUsd, vaultScale))

mintComputeOneToOneAmount(netAmount, pegPriceUsd, lpScale, vaultScale) ==
  BigDiv(BigMul(BigMul(netAmount, PEG_PRICE_SCALE), lpScale),
         BigMul(pegPriceUsd, vaultScale))

\* the selection with the comparison turned round
mintSelectGreater(oracleAmount, oneToOneAmount) ==
  IF BigLt(oneToOneAmount, oracleAmount) THEN oracleAmount ELSE oneToOneAmount

\* mint.ts:88-89
mintSelect(oracleAmount, oneToOneAmount) ==
  IF BigLt(oracleAmount, oneToOneAmount) THEN oracleAmount ELSE oneToOneAmount

\* the bound compared without rescaling it to oracle decimals
mintOutOfBoundsUnscaled(oraclePriceUsd, vault) ==
  oraclePriceUsd < toBigInt(vault.minOraclePriceUsd)

\* mint.ts:68 with >= for >
mintFeeExceedsOrEquals(feeAmount, amountIn) == BigLe(amountIn, feeAmount)

\* mint.ts:68
mintFeeExceeds(feeAmount, amountIn) == BigLt(amountIn, feeAmount)

\* mint.ts:46-53: only the vault's minimum is checked
mintOutOfBounds(oraclePriceUsd, vault) ==
  oraclePriceUsd < toBigInt(vault.minOraclePriceUsd) * BoundScale

\* mint.ts:64-98, once the inputs are validated
mintQuoteBody(input) ==
  LET amountIn == BigOf(toBigInt(input.amountIn))
      pegPriceUsd == BigOf(toBigInt(input.config.pegPriceUsd))
      oraclePriceUsd == BigOf(toBigInt(input.oraclePriceUsd))
      vaultScale == pow10(input.vault.decimals.v)
      lpScale == pow10(input.config.decimals.v)
      feeAmount == computeMintFee(amountIn, input.benefactor.mintFeeRate)
  IN  IF mintFeeExceeds(feeAmount, amountIn)
      THEN Threw("Mint fee exceeds the provided amount")
      ELSE LET netAmount == BigSub(amountIn, feeAmount)
               oracleAmount == mintComputeOracleAmount(
                   amountIn, oraclePriceUsd, pegPriceUsd, lpScale, vaultScale)
               oneToOneAmount == mintComputeOneToOneAmount(
                   netAmount, pegPriceUsd, lpScale, vaultScale)
           IN  Returned([amountIn |-> amountIn,
                         feeAmount |-> feeAmount,
                         netAmount |-> netAmount,
                         oracleAmount |-> oracleAmount,
                         oneToOneAmount |-> oneToOneAmount,
                         mintAmount |-> mintSelect(oracleAmount, oneToOneAmount)])

getMintQuote(input) ==
  IF toBigIntThrows(input.amountIn) THEN Threw(ErrNotFiniteInteger)
  ELSE IF toBigInt(input.amountIn) <= 0
  THEN Threw("amountIn must be greater than zero")
  ELSE IF toBigIntThrows(input.config.pegPriceUsd) THEN Threw(ErrNotFiniteInteger)
  ELSE IF toBigInt(input.config.pegPriceUsd) <= 0
  THEN Threw("config.pegPriceUsd must be greater than zero")
  ELSE IF toBigIntThrows(input.oraclePriceUsd) THEN Threw(ErrNotFiniteInteger)
  ELSE IF toBigInt(input.oraclePriceUsd) <= 0
  THEN Threw("oraclePriceUsd must be greater than zero")
  ELSE IF toBigIntThrows(input.vault.minOraclePriceUsd) THEN Threw(ErrNotFiniteInteger)
  ELSE IF mintOutOfBounds(toBigInt(input.oraclePriceUsd), input.vault)
  THEN Threw("oraclePriceUsd is outside of the vault's configured bounds")
  ELSE IF ensureNonNegativeIntegerThrows(input.vault.decimals)
  THEN Threw("vault.decimals must be a non-negative integer")
  ELSE IF ensureNonNegativeIntegerThrows(input.config.decimals)
  THEN Threw("config.decimals must be a non-negative integer")
  ELSE IF computeMintFeeThrows(input.benefactor.mintFeeRate)
  THEN Threw("mintFeeRate must be a non-negative integer")
  ELSE mintQuoteBody(input)

(***************************************************************************)
(* packages/sdk/src/quote/redeem.ts                                        *)
(***************************************************************************)
computeRedeemFeeThrows(redeemFeeRate) ==
  ~NumberIsInteger(redeemFeeRate) \/ NumberIsNegative(redeemFeeRate)
computeRedeemFee(amount, redeemFeeRate) ==
  ceilBigInt(BigMul(amount, BigOf(redeemFeeRate.v)), BigOf(BASIS_POINTS))

redeemComputeOracleAmount(amount, oraclePriceUsd, pegPriceUsd, lpScale, vaultScale) ==
  BigDiv(BigMul(BigMul(BigMul(amount, pegPriceUsd), vaultScale), ORACLE_PRICE_SCALE),
         BigMul(BigMul(oraclePriceUsd, lpScale), PEG_PRICE_SCALE))

redeemComputeOneToOneAmount(netAmount, pegPriceUsd, lpScale, vaultScale) ==
  BigDiv(BigMul(BigMul(netAmount, pegPriceUsd), vaultScale),
         BigMul(PEG_PRICE_SCALE, lpScale))

\* the selection with the comparison turned round
redeemSelectGreater(oracleAmount, oneToOneAmount) ==
  IF BigLt(oneToOneAmount, oracleAmount) THEN oracleAmount ELSE oneToOneAmount

\* redeem.ts:90-91
redeemSelect(oracleAmount, oneToOneAmount) ==
  IF BigLt(oracleAmount, oneToOneAmount) THEN oracleAmount ELSE oneToOneAmount

\* the bounds check of mint.ts, without the maximum
redeemOutOfBoundsMinOnly(oraclePriceUsd, vault) ==
  oraclePriceUsd < toBigInt(vault.minOraclePriceUsd) * BoundScale

\* redeem.ts:70
redeemFeeExceeds(feeAmount, amountIn) == BigLt(amountIn, feeAmount)

\* redeem.ts:45-55: the vault's minimum and maximum are checked
redeemOutOfBounds(oraclePriceUsd, vault) ==
  \/ oraclePriceUsd < toBigInt(vault.minOraclePriceUsd) * BoundScale
  \/ oraclePriceUsd > toBigInt(vault.maxOraclePriceUsd) * BoundScale

\* redeem.ts:66-100, once the inputs are validated
redeemQuoteBody(input) ==
  LET amountIn == BigOf(toBigInt(input.amountIn))
      pegPriceUsd == BigOf(toBigInt(input.config.pegPriceUsd))
      oraclePriceUsd == BigOf(toBigInt(input.oraclePriceUsd))
      vaultScale == pow10(input.vault.decimals.v)
      lpScale == pow10(input.config.decimals.v)
      feeAmount == computeRedeemFee(amountIn, input.benefactor.redeemFeeRate)
  IN  IF redeemFeeExceeds(feeAmount, amountIn)
      THEN Threw("Redeem fee exceeds the provided amount")
      ELSE LET netAmount == BigSub(amountIn, feeAmount)
               oracleAmount == redeemComputeOracleAmount(
                   amountIn, oraclePriceUsd, pegPriceUsd, lpScale, vaultScale)
               oneToOneAmount == redeemComputeOneToOneAmount(
                   netAmount, pegPriceUsd, lpScale, vaultScale)
           IN  Returned([amountIn |-> amountIn,
                         feeAmount |-> feeAmount,
                         netAmount |-> netAmount,
                         oracleAmount |-> oracleAmount,
                         oneToOneAmount |-> oneToOneAmount,
                         redeemAmount |-> redeemSelect(oracleAmount, oneToOneAmount)])

getRedeemQuote(input) ==
  IF toBigIntThrows(input.amountIn) THEN Threw(ErrNotFiniteInteger)
  ELSE IF toBigInt(input.amountIn) <= 0
  THEN Threw("amountIn must be greater than zero")
  ELSE IF toBigIntThrows(input.config.pegPriceUsd) THEN Threw(ErrNotFiniteInteger)
  ELSE IF toBigInt(input.config.pegPriceUsd) <= 0
  THEN Threw("config.pegPriceUsd must be greater than zero")
  ELSE IF toBigIntThrows(input.oraclePriceUsd) THEN Threw(ErrNotFiniteInteger)
  ELSE IF toBigInt(input.oraclePriceUsd) <= 0
  THEN Threw("oraclePriceUsd must be greater than zero")
  ELSE IF toBigIntThrows(input.vault.minOraclePriceUsd) THEN Threw(ErrNotFiniteInteger)
  ELSE IF toBigIntThrows(input.vault.maxOraclePriceUsd) THEN Threw(ErrNotFiniteInteger)
  ELSE IF redeemOutOfBounds(toBigInt(input.oraclePriceUsd), input.vault)
  THEN Threw("oraclePriceUsd is outside of the vault's configured bounds")
  ELSE IF ensureNonNegativeIntegerThrows(input.vault.decimals)
  THEN Threw("vault.decimals must be a non-negative integer")
  ELSE IF ensureNonNegativeIntegerThrows(input.config.decimals)
  THEN Threw("config.decimals must be a non-negative integer")
  ELSE IF computeRedeemFeeThrows(input.benefactor.redeemFeeRate)
  THEN Threw("redeemFeeRate must be a non-negative integer")
  ELSE redeemQuoteBody(input)

(***************************************************************************)
(* The inputs the quote functions are called on.                           *)
(***************************************************************************)
MaxSmallAmount == 3

GridAmounts == (-1 .. MaxSmallAmount) \cup {150, 9999, 1000000000}
GridPegPrices == {0, 5000, 10000, 10025}
GridOraclePrices == {0, 50000000, 100000000, 100250000, 300000000}
\* <<vault.minOraclePriceUsd, vault.maxOraclePriceUsd>>
GridOracleBounds == {<<9000, 11000>>, <<0, 30000>>}
\* <<vault.decimals, config.decimals>>
GridDecimals == {<<6, 6>>, <<9, 6>>, <<6, 9>>}
\* <<benefactor.mintFeeRate, benefactor.redeemFeeRate>>
GridFeeRates == {<<0, 0>>, <<25, 30>>, <<10000, 10000>>, <<10001, 20000>>}

\* amountIn, pegPriceUsd, oraclePriceUsd, vault minimum and maximum oracle
\* price, vault.decimals, config.decimals, mintFeeRate, redeemFeeRate
QuoteInput(a, peg, oracle, lo, hi, vaultDec, lpDec, mintFee, redeemFee) ==
  [amountIn |-> a,
   config |-> [pegPriceUsd |-> peg, decimals |-> lpDec],
   benefactor |-> [mintFeeRate |-> mintFee, redeemFeeRate |-> redeemFee],
   vault |-> [minOraclePriceUsd |-> lo, maxOraclePriceUsd |-> hi,
              decimals |-> vaultDec],
   oraclePriceUsd |-> oracle]

GridInputs ==
  { QuoteInput(BigIntV(a), BigIntV(p), BigIntV(o), BigIntV(b[1]), BigIntV(b[2]),
               NumberV(d[1]), NumberV(d[2]), NumberV(f[1]), NumberV(f[2])) :
      a \in GridAmounts, p \in GridPegPrices, o \in GridOraclePrices,
      b \in GridOracleBounds, d \in GridDecimals, f \in GridFeeRates }

\* an accepted input, and the inputs that differ from it in one field
BaseInput ==
  QuoteInput(BigIntV(1000000000), BigIntV(10000), BigIntV(100000000),
             BigIntV(9000), BigIntV(11000), NumberV(6), NumberV(6),
             NumberV(25), NumberV(30))

EdgeInputs ==
  {[BaseInput EXCEPT !.amountIn = w] :
      w \in {NumberV(1000), NumberV(0), FracV(1), NaNV, InfV}}
  \cup {[BaseInput EXCEPT !.config.pegPriceUsd = w] :
      w \in {NumberV(10000), FracV(10000), NaNV}}
  \cup {[BaseInput EXCEPT !.oraclePriceUsd = w] :
      w \in {NumberV(100000000), FracV(100000000), NaNV, InfV}}
  \cup {[BaseInput EXCEPT !.vault.minOraclePriceUsd = w] :
      w \in {NumberV(9000), FracV(9000)}}
  \cup {[BaseInput EXCEPT !.vault.maxOraclePriceUsd = w] :
      w \in {NumberV(11000), FracV(11000)}}
  \cup {[BaseInput EXCEPT !.vault.decimals = w] :
      w \in {NumberV(0), NumberV(18), NumberV(-1), FracV(6), BigIntV(6)}}
  \cup {[BaseInput EXCEPT !.config.decimals = w] :
      w \in {NumberV(0), NumberV(18), NumberV(-1), FracV(6), NaNV}}
  \cup {[BaseInput EXCEPT !.benefactor.mintFeeRate = w] :
      w \in {NumberV(-1), FracV(25), NaNV}}
  \cup {[BaseInput EXCEPT !.benefactor.redeemFeeRate = w] :
      w \in {NumberV(-1), FracV(30), NaNV}}

QuoteInputs == GridInputs \cup EdgeInputs

(***************************************************************************)
(* Quotes taken one after another: the amount a mint quote returns handed  *)
(* to a redeem quote under the same config, vault, benefactor and oracle   *)
(* price, and an amount quoted whole and in two parts.                     *)
(***************************************************************************)
MaxPairAmount == 8

RECURSIVE NumberOfBig(_)
NumberOfBig(n) == IF n = << >> THEN 0 ELSE Head(n) + 10000 * NumberOfBig(Tail(n))

PairAmounts == (1 .. MaxPairAmount) \cup {150, 9999, 100000}
PairSeconds == {1, 2, 7, 5000}
PairPegPrices == {5000, 10000, 10025}
PairOraclePrices == {50000000, 100000000, 300000000}
PairFeeRates == {<<0, 0>>, <<25, 30>>, <<5000, 5000>>, <<10000, 10000>>}

PairInputs ==
  { [kind |-> "pair",
     quote |-> QuoteInput(BigIntV(a), BigIntV(p), BigIntV(o), BigIntV(0), BigIntV(30000),
                          NumberV(d[1]), NumberV(d[2]), NumberV(f[1]), NumberV(f[2])),
     second |-> b] :
      a \in PairAmounts, b \in PairSeconds, p \in PairPegPrices, o \in PairOraclePrices,
      d \in GridDecimals, f \in PairFeeRates }

WithAmount(quote, amount) == [quote EXCEPT !.amountIn = BigIntV(amount)]

\* getRedeemQuote on the mintAmount of getMintQuote
mintThenRedeem(pair) ==
  LET minted == getMintQuote(pair.quote)
  IN  [state |-> "roundTrip",
       mint |-> minted,
       redeem |-> IF minted.state = "returned"
                  THEN getRedeemQuote(WithAmount(pair.quote,
                                                 NumberOfBig(minted.quote.mintAmount)))
                  ELSE NotCalled]

\* a quote of a + b and the quotes of a and of b
splitMint(pair) ==
  [state |-> "splitMint",
   whole |-> getMintQuote(WithAmount(pair.quote, pair.quote.amountIn.v + pair.second)),
   first |-> getMintQuote(pair.quote),
   second |-> getMintQuote(WithAmount(pair.quote, pair.second))]
splitRedeem(pair) ==
  [state |-> "splitRedeem",
   whole |-> getRedeemQuote(WithAmount(pair.quote, pair.quote.amountIn.v + pair.second)),
   first |-> getRedeemQuote(pair.quote),
   second |-> getRedeemQuote(WithAmount(pair.quote, pair.second))]

(***************************************************************************)
(* packages/cli/src/index.ts: findPeriodLimitViolation.  The fields of a   *)
(* PeriodLimit are bigint; the amount is bigint | number.  A value that    *)
(* may be null is a record with the flag isNull.                           *)
(***************************************************************************)
Null == [isNull |-> TRUE, value |-> 0]
NotNull(n) == [isNull |-> FALSE, value |-> n]

\* index.ts:129-132 and 143-145
maxAmountOf(limit, operation) ==
  IF operation = "mint" THEN limit.maxMintAmount ELSE limit.maxRedeemAmount
usedCounterOf(limit, operation) ==
  IF operation = "mint" THEN limit.mintedAmount ELSE limit.redeemedAmount

\* getRemainingCapacity that forgets the amount already used
getRemainingCapacityUnused(limit, now, operation) ==
  IF limit.durationSeconds = 0 THEN Null
  ELSE NotNull(maxAmountOf(limit, operation))

\* getRemainingCapacity that takes a slot of duration 0 as an enabled slot
getRemainingCapacityNoDisabled(limit, now, operation) ==
  LET maxAmount == maxAmountOf(limit, operation)
  IN  IF maxAmount = 0 THEN NotNull(0)
      ELSE LET windowElapsed == now - limit.windowStart
               usedAmount == IF windowElapsed >= limit.durationSeconds
                             THEN 0
                             ELSE usedCounterOf(limit, operation)
           IN  NotNull(maxAmount - usedAmount)

\* getRemainingCapacity that takes a maximum of 0 as no limit
getRemainingCapacityZeroUnlimited(limit, now, operation) ==
  IF limit.durationSeconds = 0 THEN Null
  ELSE LET maxAmount == maxAmountOf(limit, operation)
       IN  IF maxAmount = 0 THEN Null
           ELSE LET windowElapsed == now - limit.windowStart
                    usedAmount == IF windowElapsed >= limit.durationSeconds
                                  THEN 0
                                  ELSE usedCounterOf(limit, operation)
                IN  NotNull(maxAmount - usedAmount)

\* getRemainingCapacity whose window is still open at its last second
getRemainingCapacityStrictExpiry(limit, now, operation) ==
  IF limit.durationSeconds = 0 THEN Null
  ELSE LET maxAmount == maxAmountOf(limit, operation)
       IN  IF maxAmount = 0 THEN NotNull(0)
           ELSE LET windowElapsed == now - limit.windowStart
                    usedAmount == IF windowElapsed > limit.durationSeconds
                                  THEN 0
                                  ELSE usedCounterOf(limit, operation)
                IN  NotNull(maxAmount - usedAmount)

getRemainingCapacity(limit, now, operation) ==
  IF limit.durationSeconds = 0 THEN Null
  ELSE LET maxAmount == maxAmountOf(limit, operation)
       IN  IF maxAmount = 0 THEN NotNull(0)
           ELSE LET windowElapsed == now - limit.windowStart
                    usedAmount == IF windowElapsed >= limit.durationSeconds
                                  THEN 0
                                  ELSE usedCounterOf(limit, operation)
                IN  NotNull(maxAmount - usedAmount)

\* the loop of findLimitExceedance returning the remainder as computed
RECURSIVE findLimitExceedanceFromUnclamped(_, _, _, _, _)
findLimitExceedanceFromUnclamped(periodLimits, i, amount, now, operation) ==
  IF i > Len(periodLimits) THEN Null
  ELSE LET remaining == getRemainingCapacity(periodLimits[i], now, operation)
       IN  IF ~remaining.isNull /\ amount > remaining.value
           THEN NotNull(remaining.value)
           ELSE findLimitExceedanceFromUnclamped(periodLimits, i + 1, amount, now,
                                                 operation)

\* the loop of findLimitExceedance from index i on
RECURSIVE findLimitExceedanceFrom(_, _, _, _, _)
findLimitExceedanceFrom(periodLimits, i, amount, now, operation) ==
  IF i > Len(periodLimits) THEN Null
  ELSE LET remaining == getRemainingCapacity(periodLimits[i], now, operation)
       IN  IF ~remaining.isNull /\ amount > remaining.value
           THEN NotNull(IF remaining.value > 0 THEN remaining.value ELSE 0)
           ELSE findLimitExceedanceFrom(periodLimits, i + 1, amount, now, operation)

findLimitExceedance(periodLimits, amount, now, operation) ==
  findLimitExceedanceFrom(periodLimits, 1, amount, now, operation)

NoViolation == [state |-> "returned", found |-> FALSE]
Violation(account, remaining) ==
  [state |-> "returned", found |-> TRUE, account |-> account,
   remainingAmount |-> remaining]

\* findPeriodLimitViolation that checks neither the amount nor the operation
findPeriodLimitViolationUnchecked(in, now) ==
  IF toBigIntThrows(in.amount) THEN Threw("amount must be a finite integer")
  ELSE
    LET amount == toBigInt(in.amount)
        configRemaining ==
          findLimitExceedance(in.config.periodLimits, amount, now, in.operation)
        vaultRemaining ==
          findLimitExceedance(in.vault.periodLimits, amount, now, in.operation)
        benefactorRemaining ==
          findLimitExceedance(in.benefactor.periodLimits, amount, now, in.operation)
    IN  IF ~configRemaining.isNull THEN Violation("config", configRemaining.value)
        ELSE IF ~vaultRemaining.isNull THEN Violation("vault", vaultRemaining.value)
        ELSE IF ~benefactorRemaining.isNull
        THEN Violation("benefactor", benefactorRemaining.value)
        ELSE NoViolation

\* findPeriodLimitViolation that looks at the benefactor before the vault
findPeriodLimitViolationBenefactorFirst(in, now) ==
  IF toBigIntThrows(in.amount) THEN Threw("amount must be a finite integer")
  ELSE IF toBigInt(in.amount) <= 0 THEN Threw("amount must be greater than zero")
  ELSE IF in.operation # "mint" /\ in.operation # "redeem"
  THEN Threw("operation must be either \"mint\" or \"redeem\"")
  ELSE
    LET amount == toBigInt(in.amount)
        configRemaining ==
          findLimitExceedance(in.config.periodLimits, amount, now, in.operation)
        vaultRemaining ==
          findLimitExceedance(in.vault.periodLimits, amount, now, in.operation)
        benefactorRemaining ==
          findLimitExceedance(in.benefactor.periodLimits, amount, now, in.operation)
    IN  IF ~configRemaining.isNull THEN Violation("config", configRemaining.value)
        ELSE IF ~benefactorRemaining.isNull
        THEN Violation("benefactor", benefactorRemaining.value)
        ELSE IF ~vaultRemaining.isNull THEN Violation("vault", vaultRemaining.value)
        ELSE NoViolation

\* now is what Date.now() / 1000 gives the call
findPeriodLimitViolation(in, now) ==
  IF toBigIntThrows(in.amount) THEN Threw("amount must be a finite integer")
  ELSE IF toBigInt(in.amount) <= 0 THEN Threw("amount must be greater than zero")
  ELSE IF in.operation # "mint" /\ in.operation # "redeem"
  THEN Threw("operation must be either \"mint\" or \"redeem\"")
  ELSE
    LET amount == toBigInt(in.amount)
        configRemaining ==
          findLimitExceedance(in.config.periodLimits, amount, now, in.operation)
        vaultRemaining ==
          findLimitExceedance(in.vault.periodLimits, amount, now, in.operation)
        benefactorRemaining ==
          findLimitExceedance(in.benefactor.periodLimits, amount, now, in.operation)
    IN  IF ~configRemaining.isNull THEN Violation("config", configRemaining.value)
        ELSE IF ~vaultRemaining.isNull THEN Violation("vault", vaultRemaining.value)
        ELSE IF ~benefactorRemaining.isNull
        THEN Violation("benefactor", benefactorRemaining.value)
        ELSE NoViolation

(***************************************************************************)
(* The inputs findPeriodLimitViolation is called on, and the clock.        *)
(***************************************************************************)
MaxSlots == 2

Slot(d, maxMint, maxRedeem, minted, redeemed, start) ==
  [durationSeconds |-> d, maxMintAmount |-> maxMint, maxRedeemAmount |-> maxRedeem,
   mintedAmount |-> minted, redeemedAmount |-> redeemed, windowStart |-> start]

\* a disabled slot, and hourly slots: unused, partly used, used beyond a
\* lowered maximum, with maximum 0, and with a small maximum
SlotSet ==
  { Slot(0, 1000, 500, 1100, 600, 5400),
    Slot(3600, 1000, 500, 0, 0, 5400),
    Slot(3600, 1000, 500, 900, 450, 5400),
    Slot(3600, 1000, 500, 1100, 600, 5400),
    Slot(3600, 0, 0, 0, 0, 5400),
    Slot(3600, 120, 60, 0, 0, 5400) }

RECURSIVE SlotLists(_)
SlotLists(n) ==
  IF n = 0 THEN {<< >>}
  ELSE SlotLists(n - 1) \cup
       {Append(l, s) : l \in {k \in SlotLists(n - 1) : Len(k) = n - 1}, s \in SlotSet}

LimitAmounts ==
  {BigIntV(100), BigIntV(150), BigIntV(1001), BigIntV(0), BigIntV(-1), NaNV}
LimitOperations == {"mint", "redeem", "withdraw"}
\* the clock: 1800 s into the slots' window, at its end, and beyond
ClockTimes == {7200, 9000, 10800}

LimitInputs ==
  { [amount |-> a, operation |-> op,
     config |-> [periodLimits |-> c],
     vault |-> [periodLimits |-> v],
     benefactor |-> [periodLimits |-> b]] :
      a \in LimitAmounts, op \in LimitOperations,
      c \in SlotLists(MaxSlots), v \in SlotLists(1), b \in SlotLists(1) }

\* the value of the variables a specification does not use
NoQuoteInput == BaseInput
NoLimitInput ==
  [amount |-> BigIntV(0), operation |-> "mint", config |-> [periodLimits |-> << >>],
   vault |-> [periodLimits |-> << >>], benefactor |-> [periodLimits |-> << >>]]

(***************************************************************************)
(* packages/cli/src/commands/update-config.ts: the set-peg-price-usd       *)
(* action and parsePegPriceFlag (update-config-multisig.ts holds the same  *)
(* text).  A string is the sequence of its characters.                     *)
(***************************************************************************)
DigitChars == {"0", "1", "2", "3", "4", "5", "6", "7", "8", "9"}
DigitValue(c) ==
  CASE c = "0" -> 0 [] c = "1" -> 1 [] c = "2" -> 2 [] c = "3" -> 3 [] c = "4" -> 4
    [] c = "5" -> 5 [] c = "6" -> 6 [] c = "7" -> 7 [] c = "8" -> 8 [] c = "9" -> 9

\* String.prototype.trim
RECURSIVE trimStart(_)
trimStart(s) == IF s # << >> /\ Head(s) = " " THEN trimStart(Tail(s)) ELSE s
RECURSIVE trimEnd(_)
trimEnd(s) ==
  IF s # << >> /\ s[Len(s)] = " " THEN trimEnd(SubSeq(s, 1, Len(s) - 1)) ELSE s
trim(s) == trimEnd(trimStart(s))

\* /^\d+$/ and /^\d+(\.\d+)?$/ read the text from position i on in state st:
\* "start", "whole" after a digit, "dot" after the point, "frac" after a
\* digit behind the point
RECURSIVE matchFrom(_, _, _, _)
matchFrom(s, i, st, pointAllowed) ==
  IF i > Len(s) THEN st \in {"whole", "frac"}
  ELSE IF s[i] \in DigitChars
  THEN matchFrom(s, i + 1, IF st \in {"start", "whole"} THEN "whole" ELSE "frac",
                 pointAllowed)
  ELSE IF s[i] = "." /\ st = "whole" /\ pointAllowed
  THEN matchFrom(s, i + 1, "dot", pointAllowed)
  ELSE FALSE
testDigits(s) == matchFrom(s, 1, "start", FALSE)
testDecimal(s) == matchFrom(s, 1, "start", TRUE)

\* const [whole, fraction = ""] = trimmed.split(".")
RECURSIVE splitWhole(_)
splitWhole(s) ==
  IF s = << >> \/ Head(s) = "." THEN << >> ELSE << Head(s) >> \o splitWhole(Tail(s))
splitFraction(s) ==
  LET rest == SubSeq(s, Len(splitWhole(s)) + 2, Len(s)) IN splitWhole(rest)

RECURSIVE padEnd(_, _, _)
padEnd(s, n, c) == IF Len(s) >= n THEN s ELSE padEnd(Append(s, c), n, c)

\* BigInt(text) of a text of digits
RECURSIVE BigIntOfDigits(_)
BigIntOfDigits(s) ==
  IF s = << >> THEN << >>
  ELSE BigAdd(MulSmall(BigIntOfDigits(SubSeq(s, 1, Len(s) - 1)), 10),
              BigOf(DigitValue(s[Len(s)])))

\* (1n << 64n) - 1n = 18446744073709551615
U64Max == << 1615, 955, 737, 6744, 1844 >>

\* utils/common.ts
parseU64StringFlagThrows(raw) ==
  ~testDigits(raw) \/ BigLt(U64Max, BigIntOfDigits(raw))
parseU64StringFlag(raw) == BigIntOfDigits(raw)

ErrPegInvalid == "Invalid value for --peg-price-usd"
ErrPegPrecision == "Peg price precision cannot exceed 4 decimal places"
ErrPegWhole == "Unable to parse --peg-price-usd as a 64-bit unsigned integer"
ErrPegNotPositive == "Peg price must be greater than 0"
ErrPegTooHigh == "Peg price must be less than 2"
ErrPegRequired == "--peg-price-usd is required when action is set-peg-price-usd"

PegParsed(scaledValue, displayValue) ==
  [state |-> "returned", scaledValue |-> scaledValue, displayValue |-> displayValue]

\* parsePegPriceFlag that lets the upper limit itself pass
parsePegPriceFlagInclusiveMax(value) ==
  LET trimmed == trim(value)
      whole == splitWhole(trimmed)
      fraction == splitFraction(trimmed)
      paddedFraction == padEnd(fraction, PEG_PRICE_DECIMALS, "0")
      wholeValue == parseU64StringFlag(whole)
      fractionalValue == IF paddedFraction # << >> THEN BigIntOfDigits(paddedFraction)
                         ELSE << >>
      scalingFactor == BigPow10(PEG_PRICE_DECIMALS)
      scaledValue == BigAdd(BigMul(wholeValue, scalingFactor), fractionalValue)
      maxPegPrice == MulSmall(BigPow10(PEG_PRICE_DECIMALS), 2)
      displayFraction == SubSeq(paddedFraction, 1, PEG_PRICE_DECIMALS)
  IN  IF ~testDecimal(trimmed) THEN Threw(ErrPegInvalid)
      ELSE IF Len(fraction) > PEG_PRICE_DECIMALS THEN Threw(ErrPegPrecision)
      ELSE IF parseU64StringFlagThrows(whole) THEN Threw(ErrPegWhole)
      ELSE IF BigLe(scaledValue, << >>) THEN Threw(ErrPegNotPositive)
      ELSE IF BigLt(maxPegPrice, scaledValue) THEN Threw(ErrPegTooHigh)
      ELSE PegParsed(scaledValue, whole \o << "." >> \o displayFraction)

parsePegPriceFlag(value) ==
  LET trimmed == trim(value)
      whole == splitWhole(trimmed)
      fraction == splitFraction(trimmed)
      paddedFraction == padEnd(fraction, PEG_PRICE_DECIMALS, "0")
      wholeValue == parseU64StringFlag(whole)
      fractionalValue == IF paddedFraction # << >> THEN BigIntOfDigits(paddedFraction)
                         ELSE << >>
      scalingFactor == BigPow10(PEG_PRICE_DECIMALS)
      scaledValue == BigAdd(BigMul(wholeValue, scalingFactor), fractionalValue)
      maxPegPrice == MulSmall(BigPow10(PEG_PRICE_DECIMALS), 2)
      displayFraction == SubSeq(paddedFraction, 1, PEG_PRICE_DECIMALS)
  IN  IF ~testDecimal(trimmed) THEN Threw(ErrPegInvalid)
      ELSE IF Len(fraction) > PEG_PRICE_DECIMALS THEN Threw(ErrPegPrecision)
      ELSE IF parseU64StringFlagThrows(whole) THEN Threw(ErrPegWhole)
      ELSE IF BigLe(scaledValue, << >>) THEN Threw(ErrPegNotPositive)
      ELSE IF BigLe(maxPegPrice, scaledValue) THEN Threw(ErrPegTooHigh)
      ELSE PegParsed(scaledValue, whole \o << "." >> \o displayFraction)

\* the flag peg-price-usd: parse: async (input) => input.trim()
parsePegPriceUsdInput(str) == trim(str)

\* case "set-peg-price-usd" of the command, with toConfigManagementActionArgs
buildSetPegPriceUsd(pegPriceRaw) ==
  IF pegPriceRaw = << >> THEN Threw(ErrPegRequired)
  ELSE LET pegPriceUsd == parsePegPriceFlag(pegPriceRaw)
       IN  IF pegPriceUsd.state = "threw" THEN pegPriceUsd
           ELSE [state |-> "returned",
                 action |-> [kind |-> "SetPegPriceUSD",
                             pegPriceUsd |-> pegPriceUsd.scaledValue],
                 details |-> [peg_price_display |-> pegPriceUsd.displayValue]]

(***************************************************************************)
(* The texts given as --peg-price-usd: every text of at most MaxPegLen     *)
(* characters over digits, the point, a sign and a blank.                  *)
(***************************************************************************)
MaxPegLen == 6
PegChars == {"0", "1", "2", "5", ".", "-", " "}

PegFlags == UNION {[1 .. n -> PegChars] : n \in 0 .. MaxPegLen}

(***************************************************************************)
(* packages/cli/src/utils/operator.ts and formatRole of                    *)
(* packages/cli/src/commands/create-operator.ts (print-all-operators.ts    *)
(* holds the same text).  The text formatRole returns is kept in its       *)
(* parts: the roles joined by ", ", the text of "unknown mask 0x..." if    *)
(* there is one, and the digits behind "raw".                              *)
(***************************************************************************)
OPERATOR_ROLE_NAMES ==
  << "admin", "period-manager", "global-disabler", "vault-manager", "vault-disabler",
     "benefactor-manager", "benefactor-disabler", "peg-manager", "collateral-manager" >>

\* a & b and a & ~b of bigint a >= 0, b >= 0
RECURSIVE BitAnd(_, _)
BitAnd(a, b) ==
  IF a = 0 \/ b = 0 THEN 0
  ELSE (a % 2) * (b % 2) + 2 * BitAnd(a \div 2, b \div 2)
RECURSIVE BitAndNot(_, _)
BitAndNot(a, b) ==
  IF a = 0 THEN 0
  ELSE (a % 2) * (1 - (b % 2)) + 2 * BitAndNot(a \div 2, b \div 2)

\* value.toString(radix)
RadixDigits ==
  << "0", "1", "2", "3", "4", "5", "6", "7", "8", "9", "a", "b", "c", "d", "e", "f" >>
RECURSIVE toString(_, _)
toString(value, radix) ==
  IF value < radix THEN << RadixDigits[value + 1] >>
  ELSE Append(toString(value \div radix, radix), RadixDigits[(value % radix) + 1])

\* the loop of formatRole from index on
RECURSIVE activeRolesFrom(_, _)
activeRolesFrom(value, index) ==
  IF index >= Len(OPERATOR_ROLE_NAMES) THEN << >>
  ELSE LET bit == 2 ^ index
       IN  (IF BitAnd(value, bit) # 0
            THEN << [name |-> OPERATOR_ROLE_NAMES[index + 1], bit |-> index] >>
            ELSE << >>) \o activeRolesFrom(value, index + 1)

RoleText(none, roles, unknown, raw) ==
  [none |-> none, roles |-> roles, unknown |-> unknown, raw |-> raw]

\* formatRole that reports the named roles only
formatRoleKnownOnly(value) ==
  LET activeRoles == activeRolesFrom(value, 0)
  IN  IF Len(activeRoles) = 0
      THEN RoleText(TRUE, << >>, << >>, toString(value, 10))
      ELSE RoleText(FALSE, activeRoles, << >>, toString(value, 10))

formatRole(value) ==
  LET knownMask == (2 ^ Len(OPERATOR_ROLE_NAMES)) - 1
      activeRoles == activeRolesFrom(value, 0)
      unknownMask == BitAndNot(value, knownMask)
  IN  IF Len(activeRoles) = 0 /\ unknownMask = 0
      THEN RoleText(TRUE, << >>, << >>, toString(value, 10))
      ELSE RoleText(FALSE, activeRoles,
                    IF unknownMask # 0 THEN << toString(unknownMask, 16) >> ELSE << >>,
                    toString(value, 10))

(***************************************************************************)
(* The role of the operator account that is printed: every mask up to      *)
(* MaxRoleValue, which has the bits 0..10.                                 *)
(***************************************************************************)
MaxRoleValue == 2047
RoleValues == 0 .. MaxRoleValue

(***************************************************************************)
(* The accounts of the program and the instructions that manage them.  The *)
(* program itself is not part of the sources: what an instruction does to  *)
(* an account follows section 4.5 of the specification.  A transaction     *)
(* applies its instructions one after the other, each on the accounts the  *)
(* one before it left.                                                     *)
(***************************************************************************)
OperatorRole ==
  << "Admin", "PeriodManager", "GlobalDisabler", "VaultManager", "VaultDisabler",
     "BenefactorManager", "BenefactorDisabler", "PegManager", "CollateralManager" >>
OperatorRoleBit(role) == (CHOOSE k \in 1 .. Len(OperatorRole) : OperatorRole[k] = role) - 1

\* an operator's role is replaced wholesale by SetRole
manageOperator(operator, action) ==
  CASE action.kind = "SetRole" ->
         [operator EXCEPT !.role = 2 ^ OperatorRoleBit(action.role)]
    [] action.kind = "SetStatus" -> [operator EXCEPT !.status = action.status]

\* utils/operator.ts
ROLE_NAME_TO_ROLE(roleName) ==
  CASE roleName = "admin" -> "Admin"
    [] roleName = "period-manager" -> "PeriodManager"
    [] roleName = "global-disabler" -> "GlobalDisabler"
    [] roleName = "vault-manager" -> "VaultManager"
    [] roleName = "vault-disabler" -> "VaultDisabler"
    [] roleName = "benefactor-manager" -> "BenefactorManager"
    [] roleName = "benefactor-disabler" -> "BenefactorDisabler"
    [] roleName = "peg-manager" -> "PegManager"
    [] roleName = "collateral-manager" -> "CollateralManager"

Instruction(program, action) == [program |-> program, action |-> action]
Transaction(name, instructions) ==
  [name |-> name, instructions |-> instructions, next |-> 1]

\* grant-all-roles-multisig: one SetRole for each role name
grantAllRolesInstructions ==
  [i \in 1 .. Len(OPERATOR_ROLE_NAMES) |->
     Instruction("manageOperator",
                 [kind |-> "SetRole", role |-> ROLE_NAME_TO_ROLE(OPERATOR_ROLE_NAMES[i])])]

(***************************************************************************)
(* Period-limit slots of an account and the actions on them.  Amounts are  *)
(* u64 numbers kept as BigInt; a list has the 4 slots of its owner, slot   *)
(* index i of an action being element i + 1.                               *)
(***************************************************************************)
PeriodLimit(d, maxMint, maxRedeem, minted, redeemed, start) ==
  [durationSeconds |-> d, maxMintAmount |-> maxMint, maxRedeemAmount |-> maxRedeem,
   mintedAmount |-> minted, redeemedAmount |-> redeemed, windowStart |-> start]
EmptyPeriodLimit == PeriodLimit(<< >>, << >>, << >>, << >>, << >>, 0)
EmptyPeriodLimits == << EmptyPeriodLimit, EmptyPeriodLimit, EmptyPeriodLimit,
                        EmptyPeriodLimit >>

\* UpdatePeriodLimit sets the duration and both maxima of one slot and keeps
\* its counters; ResetPeriodLimit zeroes the counters and the window start
\* of one slot; an index outside the list fails
periodLimitActionFails(periodLimits, action) ==
  action.index < 0 \/ action.index >= Len(periodLimits)
updatePeriodLimit(periodLimits, action) ==
  [periodLimits EXCEPT ![action.index + 1] =
     [@ EXCEPT !.durationSeconds = action.durationSeconds,
               !.maxMintAmount = action.maxMintAmount,
               !.maxRedeemAmount = action.maxRedeemAmount]]
resetPeriodLimit(periodLimits, action) ==
  [periodLimits EXCEPT ![action.index + 1] =
     [@ EXCEPT !.mintedAmount = << >>, !.redeemedAmount = << >>, !.windowStart = 0]]

\* a benefactor is created Disabled, with its fee rates and no limit set
createBenefactor(args) ==
  [exists |-> TRUE, status |-> "Disabled", mintFeeRate |-> args.mintFeeRate,
   redeemFeeRate |-> args.redeemFeeRate, periodLimits |-> EmptyPeriodLimits]
NoBenefactor ==
  [exists |-> FALSE, status |-> "Disabled", mintFeeRate |-> 0, redeemFeeRate |-> 0,
   periodLimits |-> EmptyPeriodLimits]

manageBenefactor(benefactor, action) ==
  CASE action.kind = "UpdatePeriodLimit" ->
         [benefactor EXCEPT !.periodLimits = updatePeriodLimit(@, action)]
    [] action.kind = "ResetPeriodLimit" ->
         [benefactor EXCEPT !.periodLimits = resetPeriodLimit(@, action)]
    [] action.kind = "SetStatus" -> [benefactor EXCEPT !.status = action.status]
    [] action.kind = "Disable" -> [benefactor EXCEPT !.status = "Disabled"]
    [] action.kind = "UpdateFeeRates" ->
         [benefactor EXCEPT !.mintFeeRate = action.mintFeeRate,
                            !.redeemFeeRate = action.redeemFeeRate]

(***************************************************************************)
(* packages/cli/src/commands/mint.ts (CreateBenefactorWithLimitsMultisig) *)
(* and utils/benefactor.ts.  A fee rate flag is an integer flag, min 0,   *)
(* max 10000.                                                              *)
(***************************************************************************)
integerFlagThrows(value, min, max) ==
  ~NumberIsInteger(value) \/ value.v < min \/ value.v > max
parseBenefactorFeeRateFlagThrows(value) ==
  ~NumberIsInteger(value) \/ value.v < 0 \/ value.v > 10000
parseBenefactorFeeRateFlag(value) == value.v

\* the instructions with the benefactor enabled before its limits are set
createBenefactorWithLimitsSetStatusFirst(flags) ==
  << Instruction("createBenefactor",
                 [mintFeeRate |-> parseBenefactorFeeRateFlag(flags.mintFeeRate),
                  redeemFeeRate |-> parseBenefactorFeeRateFlag(flags.redeemFeeRate)]),
     Instruction("manageBenefactor", [kind |-> "SetStatus", status |-> "Active"]),
     Instruction("manageBenefactor",
                 [kind |-> "UpdatePeriodLimit", index |-> 0, durationSeconds |-> BigOf(3600),
                  maxMintAmount |-> parseU64StringFlag(trim(flags.hourlyMaxMint)),
                  maxRedeemAmount |-> parseU64StringFlag(trim(flags.hourlyMaxRedeem))]),
     Instruction("manageBenefactor",
                 [kind |-> "UpdatePeriodLimit", index |-> 1, durationSeconds |-> BigOf(86400),
                  maxMintAmount |-> parseU64StringFlag(trim(flags.dailyMaxMint)),
                  maxRedeemAmount |-> parseU64StringFlag(trim(flags.dailyMaxRedeem))]) >>

createBenefactorWithLimitsInstructions(flags) ==
  << Instruction("createBenefactor",
                 [mintFeeRate |-> parseBenefactorFeeRateFlag(flags.mintFeeRate),
                  redeemFeeRate |-> parseBenefactorFeeRateFlag(flags.redeemFeeRate)]),
     Instruction("manageBenefactor",
                 [kind |-> "UpdatePeriodLimit", index |-> 0, durationSeconds |-> BigOf(3600),
                  maxMintAmount |-> parseU64StringFlag(trim(flags.hourlyMaxMint)),
                  maxRedeemAmount |-> parseU64StringFlag(trim(flags.hourlyMaxRedeem))]),
     Instruction("manageBenefactor",
                 [kind |-> "UpdatePeriodLimit", index |-> 1, durationSeconds |-> BigOf(86400),
                  maxMintAmount |-> parseU64StringFlag(trim(flags.dailyMaxMint)),
                  maxRedeemAmount |-> parseU64StringFlag(trim(flags.dailyMaxRedeem))]),
     Instruction("manageBenefactor", [kind |-> "SetStatus", status |-> "Active"]) >>

\* what stops the command before it builds the transaction
createBenefactorWithLimitsThrows(flags) ==
  \/ integerFlagThrows(flags.mintFeeRate, 0, 10000)
  \/ integerFlagThrows(flags.redeemFeeRate, 0, 10000)
  \/ parseBenefactorFeeRateFlagThrows(flags.mintFeeRate)
  \/ parseBenefactorFeeRateFlagThrows(flags.redeemFeeRate)
  \/ parseU64StringFlagThrows(trim(flags.hourlyMaxMint))
  \/ parseU64StringFlagThrows(trim(flags.hourlyMaxRedeem))
  \/ parseU64StringFlagThrows(trim(flags.dailyMaxMint))
  \/ parseU64StringFlagThrows(trim(flags.dailyMaxRedeem))

\* the flags the command is run with: fee rates, and the texts of the four
\* maxima, of which the first of each pair is the flag's default
FeeRateFlags == {NumberV(4), NumberV(0), NumberV(10000), NumberV(10001), FracV(2)}
HourlyMaxFlags ==
  { << "1", "0", "0", "0", "0", "0", "0", "0", "0", "0", "0", "0", "0", "0" >>,
    << "1", "0", "0", "0" >>, << "0" >>, << "-", "1" >>, << " ", "5", "0", "0" >> }
DailyMaxFlags ==
  { << "1", "0", "0", "0", "0", "0", "0", "0", "0", "0", "0", "0", "0", "0", "0" >>,
    << "2", "4", "0", "0", "0" >>, << "1", "e", "3" >> }
BenefactorFlags ==
  { [command |-> "create-benefactor-with-limits-multisig",
     mintFeeRate |-> m, redeemFeeRate |-> r,
     hourlyMaxMint |-> hm, hourlyMaxRedeem |-> hr,
     dailyMaxMint |-> dm, dailyMaxRedeem |-> dr] :
      m \in FeeRateFlags, r \in {NumberV(4), NumberV(30)},
      hm \in HourlyMaxFlags, hr \in HourlyMaxFlags,
      dm \in DailyMaxFlags, dr \in DailyMaxFlags }

(***************************************************************************)
(* Config: the pause flag, the peg price and the global period limits.     *)
(* Pause forces the flag to false, UpdatePauseFlag sets it to the boolean  *)
(* it carries.                                                             *)
(***************************************************************************)
manageConfig(config, action) ==
  CASE action.kind = "Pause" -> [config EXCEPT !.isMintRedeemEnabled = FALSE]
    [] action.kind = "UpdatePauseFlag" ->
         [config EXCEPT !.isMintRedeemEnabled = action.isMintRedeemEnabled]
    [] action.kind = "UpdatePeriodLimit" ->
         [config EXCEPT !.periodLimits = updatePeriodLimit(@, action)]
    [] action.kind = "ResetPeriodLimit" ->
         [config EXCEPT !.periodLimits = resetPeriodLimit(@, action)]
    [] action.kind = "SetPegPriceUSD" -> [config EXCEPT !.pegPriceUsd = action.pegPriceUsd]

(***************************************************************************)
(* packages/cli/src/utils/common.ts parseBooleanFlag and                   *)
(* packages/cli/src/commands/update-config.ts.  A flag that is not given   *)
(* is undefined; a text flag that is given holds its characters.           *)
(***************************************************************************)
undefined == [ty |-> "undefined", cls |-> "none", v |-> 0, text |-> << >>]
StringV(text) == [ty |-> "string", cls |-> "none", v |-> 0, text |-> text]

toLowerCaseChar(c) ==
  CASE c = "T" -> "t" [] c = "R" -> "r" [] c = "U" -> "u" [] c = "E" -> "e"
    [] c = "F" -> "f" [] c = "A" -> "a" [] c = "L" -> "l" [] c = "S" -> "s"
    [] c = "Y" -> "y" [] c = "N" -> "n" [] c = "O" -> "o" [] OTHER -> c
toLowerCase(str) == [i \in 1 .. Len(str) |-> toLowerCaseChar(str[i])]

TrueWords ==
  { << "t", "r", "u", "e" >>, << "t" >>, << "1" >>, << "y", "e", "s" >>, << "y" >>,
    << "o", "n" >>, << "e", "n", "a", "b", "l", "e" >>,
    << "e", "n", "a", "b", "l", "e", "d" >> }
FalseWords ==
  { << "f", "a", "l", "s", "e" >>, << "f" >>, << "0" >>, << "n", "o" >>, << "n" >>,
    << "o", "f", "f" >>, << "d", "i", "s", "a", "b", "l", "e" >>,
    << "d", "i", "s", "a", "b", "l", "e", "d" >> }

parseBooleanFlagThrows(raw) ==
  toLowerCase(trim(raw)) \notin TrueWords \union FalseWords
\* parseBooleanFlag reading every accepted word as true
parseBooleanFlagAlwaysTrue(raw) == TRUE
parseBooleanFlag(raw) == toLowerCase(trim(raw)) \in TrueWords

\* toConfigManagementActionArgs sending every period-limit action to slot 0
toConfigManagementActionArgsSlotZero(action) ==
  CASE action.kind = "pause" -> [kind |-> "Pause"]
    [] action.kind = "updatePauseFlag" ->
         [kind |-> "UpdatePauseFlag", isMintRedeemEnabled |-> action.isMintRedeemEnabled]
    [] action.kind = "updatePeriodLimit" ->
         [kind |-> "UpdatePeriodLimit", index |-> 0,
          durationSeconds |-> action.durationSeconds,
          maxMintAmount |-> action.maxMintAmount,
          maxRedeemAmount |-> action.maxRedeemAmount]
    [] action.kind = "resetPeriodLimit" -> [kind |-> "ResetPeriodLimit", index |-> 0]
    [] action.kind = "setPegPriceUsd" ->
         [kind |-> "SetPegPriceUSD", pegPriceUsd |-> action.pegPriceUsd]

toConfigManagementActionArgs(action) ==
  CASE action.kind = "pause" -> [kind |-> "Pause"]
    [] action.kind = "updatePauseFlag" ->
         [kind |-> "UpdatePauseFlag", isMintRedeemEnabled |-> action.isMintRedeemEnabled]
    [] action.kind = "updatePeriodLimit" ->
         [kind |-> "UpdatePeriodLimit", index |-> action.index,
          durationSeconds |-> action.durationSeconds,
          maxMintAmount |-> action.maxMintAmount,
          maxRedeemAmount |-> action.maxRedeemAmount]
    [] action.kind = "resetPeriodLimit" ->
         [kind |-> "ResetPeriodLimit", index |-> action.index]
    [] action.kind = "setPegPriceUsd" ->
         [kind |-> "SetPegPriceUSD", pegPriceUsd |-> action.pegPriceUsd]

\* the flags of update-config as oclif hands them over: index is an integer
\* flag with min 0 and max 3, duration-seconds one with min 0, and the text
\* flags are trimmed
updateConfigFlagsThrow(flags) ==
  \/ flags.index # undefined /\ integerFlagThrows(flags.index, 0, 3)
  \/ /\ flags.durationSeconds # undefined
     /\ (~NumberIsInteger(flags.durationSeconds) \/ flags.durationSeconds.v < 0)

Parsed(action) == [state |-> "returned", action |-> action]
ErrFlagRequired == "flag is required for this action"
ErrDurationNotPositive == "--duration-seconds must be greater than 0"
ErrBoolean == "Expected a boolean-like value (true/false)"
ErrU64 == "Invalid value: expected an unsigned 64-bit integer"
ErrFlag == "flag value rejected by the flag's own parser"

\* UpdateConfig.parseActionFlags
parseActionFlags(flags) ==
  CASE flags.action = "pause" -> Parsed([kind |-> "pause"])
    [] flags.action = "update-pause-flag" ->
         IF flags.mintRedeemEnabled = undefined THEN Threw(ErrFlagRequired)
         ELSE IF parseBooleanFlagThrows(trim(flags.mintRedeemEnabled.text))
              THEN Threw(ErrBoolean)
         ELSE Parsed([kind |-> "updatePauseFlag",
                      isMintRedeemEnabled |->
                        parseBooleanFlag(trim(flags.mintRedeemEnabled.text))])
    [] flags.action = "update-period-limit" ->
         IF \/ flags.index = undefined
            \/ flags.durationSeconds = undefined
            \/ flags.maxMintAmount = undefined
            \/ flags.maxRedeemAmount = undefined
         THEN Threw(ErrFlagRequired)
         ELSE IF flags.durationSeconds.v <= 0 THEN Threw(ErrDurationNotPositive)
         ELSE IF \/ parseU64StringFlagThrows(trim(flags.maxMintAmount.text))
                 \/ parseU64StringFlagThrows(trim(flags.maxRedeemAmount.text))
              THEN Threw(ErrU64)
         ELSE Parsed([kind |-> "updatePeriodLimit", index |-> flags.index.v,
                      durationSeconds |-> BigOf(flags.durationSeconds.v),
                      maxMintAmount |-> parseU64StringFlag(trim(flags.maxMintAmount.text)),
                      maxRedeemAmount |->
                        parseU64StringFlag(trim(flags.maxRedeemAmount.text))])
    [] flags.action = "reset-period-limit" ->
         IF flags.index = undefined THEN Threw(ErrFlagRequired)
         ELSE Parsed([kind |-> "resetPeriodLimit", index |-> flags.index.v])
    [] flags.action = "set-peg-price-usd" ->
         IF flags.pegPriceUsd = undefined THEN Threw(ErrFlagRequired)
         ELSE LET built == buildSetPegPriceUsd(parsePegPriceUsdInput(flags.pegPriceUsd.text))
              IN  IF built.state = "threw" THEN built
                  ELSE Parsed([kind |-> "setPegPriceUsd",
                               pegPriceUsd |-> built.action.pegPriceUsd])

\* UpdateConfig.run up to the instruction it builds
updateConfig(flags) ==
  IF updateConfigFlagsThrow(flags) THEN Threw(ErrFlag)
  ELSE LET parsedAction == parseActionFlags(flags)
       IN  IF parsedAction.state = "threw" THEN parsedAction
           ELSE Parsed(toConfigManagementActionArgs(parsedAction.action))

\* the runs of update-config: each action with the flags it reads
ConfigFlagsOf(action, enabled, index, duration, maxMint, maxRedeem, peg) ==
  [command |-> "update-config", action |-> action, mintRedeemEnabled |-> enabled,
   index |-> index, durationSeconds |-> duration, maxMintAmount |-> maxMint,
   maxRedeemAmount |-> maxRedeem, pegPriceUsd |-> peg]
IndexFlags == {undefined} \union {NumberV(i) : i \in -1 .. 4}
ConfigFlags ==
  {ConfigFlagsOf("pause", undefined, undefined, undefined, undefined, undefined, undefined)}
  \union
  {ConfigFlagsOf("update-pause-flag", e, undefined, undefined, undefined, undefined,
                 undefined) :
     e \in {undefined, StringV(<< "t", "r", "u", "e" >>), StringV(<< " ", "O", "N" >>),
            StringV(<< "f", "a", "l", "s", "e" >>), StringV(<< "o", "f", "f" >>),
            StringV(<< "2" >>)}}
  \union
  {ConfigFlagsOf("update-period-limit", undefined, i, d, m, StringV(<< "2", "0", "0" >>),
                 undefined) :
     i \in IndexFlags, d \in {undefined, NumberV(-1), NumberV(0), NumberV(60)},
     m \in {undefined, StringV(<< "1", "0", "0" >>), StringV(<< "x" >>)}}
  \union
  {ConfigFlagsOf("reset-period-limit", undefined, i, undefined, undefined, undefined,
                 undefined) : i \in IndexFlags}
  \union
  {ConfigFlagsOf("set-peg-price-usd", undefined, undefined, undefined, undefined,
                 undefined, p) :
     p \in {undefined, StringV(<< "1", ".", "0", "5" >>), StringV(<< "2" >>)}}

\* a config whose first two slots have counted mints and redeems
ConfigLimits ==
  << PeriodLimit(BigOf(3600), BigOf(500), BigOf(400), BigOf(7), BigOf(3), 1000),
     PeriodLimit(BigOf(86400), BigOf(5000), BigOf(4000), BigOf(9), << >>, 2000),
     EmptyPeriodLimit, EmptyPeriodLimit >>

(***************************************************************************)
(* update-config, update-vault and update-benefactor run from the command  *)
(* line, where every flag is a text.  update-config declares index and     *)
(* duration-seconds as integer flags, which oclif parses (an optional      *)
(* sign and digits) and holds against min and max; update-vault and        *)
(* update-benefactor declare index as an integer flag with min 0 alone and *)
(* duration-seconds as a trimmed text that parseU64StringFlag reads.  The  *)
(* runs modelled are those of the actions disable, update-period-limit and *)
(* reset-period-limit.                                                     *)
(***************************************************************************)
RECURSIVE parseInt(_)
parseInt(text) ==
  IF text = << >> THEN 0
  ELSE IF Head(text) = "-" THEN 0 - parseInt(Tail(text))
  ELSE 10 * parseInt(SubSeq(text, 1, Len(text) - 1)) + DigitValue(text[Len(text)])
integerFlagTextThrows(flag) ==
  /\ flag # undefined
  /\ ~testDigits(IF flag.text # << >> /\ Head(flag.text) = "-" THEN Tail(flag.text)
                 ELSE flag.text)
integerFlag(flag) == IF flag = undefined THEN undefined ELSE NumberV(parseInt(flag.text))

\* the flags of update-config as its run reads them
updateConfigFlags(argv) ==
  ConfigFlagsOf(argv.actions[1], undefined, integerFlag(argv.index),
                integerFlag(argv.durationSeconds), argv.maxMintAmount,
                argv.maxRedeemAmount, undefined)
updateConfigRun(argv) ==
  IF integerFlagTextThrows(argv.index) \/ integerFlagTextThrows(argv.durationSeconds)
  THEN Threw(ErrFlag)
  ELSE updateConfig(updateConfigFlags(argv))

\* index of update-vault and update-benefactor: Flags.integer({ min: 0 })
indexFlagThrows(flag) ==
  \/ integerFlagTextThrows(flag)
  \/ flag # undefined /\ parseInt(flag.text) < 0

\* UpdateVault.parseAction
UpdateVault_parseAction(action, flags) ==
  CASE action = "disable" -> Parsed([kind |-> "Disable"])
    [] action = "update-period-limit" ->
         IF \/ flags.index = undefined
            \/ flags.durationSeconds = undefined
            \/ flags.maxMintAmount = undefined
            \/ flags.maxRedeemAmount = undefined
         THEN Threw(ErrFlagRequired)
         ELSE IF \/ parseU64StringFlagThrows(trim(flags.durationSeconds.text))
                 \/ parseU64StringFlagThrows(trim(flags.maxMintAmount.text))
                 \/ parseU64StringFlagThrows(trim(flags.maxRedeemAmount.text))
              THEN Threw(ErrU64)
         ELSE Parsed([kind |-> "UpdatePeriodLimit", index |-> parseInt(flags.index.text),
                      durationSeconds |->
                        parseU64StringFlag(trim(flags.durationSeconds.text)),
                      maxMintAmount |-> parseU64StringFlag(trim(flags.maxMintAmount.text)),
                      maxRedeemAmount |->
                        parseU64StringFlag(trim(flags.maxRedeemAmount.text))])
    [] action = "reset-period-limit" ->
         IF flags.index = undefined THEN Threw(ErrFlagRequired)
         ELSE Parsed([kind |-> "ResetPeriodLimit", index |-> parseInt(flags.index.text)])

\* UpdateBenefactor.parseAction
UpdateBenefactor_parseAction(action, flags) ==
  CASE action = "disable" -> Parsed([kind |-> "Disable"])
    [] action = "update-period-limit" ->
         IF \/ flags.index = undefined
            \/ flags.durationSeconds = undefined
            \/ flags.maxMintAmount = undefined
            \/ flags.maxRedeemAmount = undefined
         THEN Threw(ErrFlagRequired)
         ELSE IF \/ parseU64StringFlagThrows(trim(flags.durationSeconds.text))
                 \/ parseU64StringFlagThrows(trim(flags.maxMintAmount.text))
                 \/ parseU64StringFlagThrows(trim(flags.maxRedeemAmount.text))
              THEN Threw(ErrU64)
         ELSE Parsed([kind |-> "UpdatePeriodLimit", index |-> parseInt(flags.index.text),
                      durationSeconds |->
                        parseU64StringFlag(trim(flags.durationSeconds.text)),
                      maxMintAmount |-> parseU64StringFlag(trim(flags.maxMintAmount.text)),
                      maxRedeemAmount |->
                        parseU64StringFlag(trim(flags.maxRedeemAmount.text))])
    [] action = "reset-period-limit" ->
         IF flags.index = undefined THEN Threw(ErrFlagRequired)
         ELSE Parsed([kind |-> "ResetPeriodLimit", index |-> parseInt(flags.index.text)])

\* run of update-vault and of update-benefactor: every --action is parsed,
\* in the order given, and the first that fails ends the run
ParsedActions(actions) == [state |-> "returned", actions |-> actions]
updateVaultRun(argv) ==
  LET parsedActions ==
        [k \in 1 .. Len(argv.actions) |-> UpdateVault_parseAction(argv.actions[k], argv)]
      failed == {k \in 1 .. Len(argv.actions) : parsedActions[k].state = "threw"}
  IN  IF indexFlagThrows(argv.index) THEN Threw(ErrFlag)
      ELSE IF failed # {}
      THEN parsedActions[CHOOSE k \in failed : \A j \in failed : k <= j]
      ELSE ParsedActions([k \in 1 .. Len(argv.actions) |-> parsedActions[k].action])
updateBenefactorRun(argv) ==
  LET parsedActions ==
        [k \in 1 .. Len(argv.actions) |->
           UpdateBenefactor_parseAction(argv.actions[k], argv)]
      failed == {k \in 1 .. Len(argv.actions) : parsedActions[k].state = "threw"}
  IN  IF indexFlagThrows(argv.index) THEN Threw(ErrFlag)
      ELSE IF failed # {}
      THEN parsedActions[CHOOSE k \in failed : \A j \in failed : k <= j]
      ELSE ParsedActions([k \in 1 .. Len(argv.actions) |-> parsedActions[k].action])

\* the command lines: one action for update-config, one or two for the
\* others, and the texts given for the flags
PeriodActions == {"update-period-limit", "reset-period-limit"}
IndexTexts ==
  {undefined, StringV(<< "-", "1" >>), StringV(<< "0" >>), StringV(<< "3" >>),
   StringV(<< "4" >>), StringV(<< "x" >>)}
DurationTexts ==
  {undefined, StringV(<< "-", "1" >>), StringV(<< "0" >>), StringV(<< "6", "0" >>),
   StringV(<< "x" >>)}
MaxAmountTexts == {undefined, StringV(<< "1", "0", "0" >>)}
Argv(command, actions, index, duration, maxMint, maxRedeem) ==
  [command |-> command, actions |-> actions, index |-> index,
   durationSeconds |-> duration, maxMintAmount |-> maxMint, maxRedeemAmount |-> maxRedeem]
PeriodArgvs ==
  {Argv("update-config", << a >>, i, d, m, StringV(<< "2", "0", "0" >>)) :
     a \in PeriodActions, i \in IndexTexts, d \in DurationTexts, m \in MaxAmountTexts}
  \union
  {Argv(c, actions, i, d, m, StringV(<< "2", "0", "0" >>)) :
     c \in {"update-vault", "update-benefactor"},
     actions \in {<< a >> : a \in PeriodActions}
                   \union {<< "disable", a >> : a \in PeriodActions}
                   \union {<< "update-period-limit", "reset-period-limit" >>},
     i \in IndexTexts, d \in DurationTexts, m \in MaxAmountTexts}

(***************************************************************************)
(* packages/cli/src/commands/delete-operator.ts and the multisig command   *)
(* of the same name.  An address is a name; findOperator derives the       *)
(* operator account of an authority.                                       *)
(***************************************************************************)
Addresses == {"Alice", "Bob", "Carol"}
parseAddressFlagThrows(raw) == raw \notin Addresses
parseAddressFlag(raw) == raw
findOperator(authority) == [seed |-> "operator", authority |-> authority]
ErrAddress == "Expected a base58 Solana address"

getDeleteOperatorInstruction(operatorAuthority, payer, operator, deletedOperator) ==
  Instruction("deleteOperator",
              [operatorAuthority |-> operatorAuthority, payer |-> payer,
               operator |-> operator, deletedOperator |-> deletedOperator])

\* both commands up to the instruction: signer is the keypair of the run
\* or the authority of the multisig
deleteOperatorInstruction(signer, flags) ==
  LET operatorAuthority == parseAddressFlag(flags.operatorAuthority)
      receiverAddress == IF flags.receiver # undefined
                         THEN parseAddressFlag(flags.receiver.text)
                         ELSE operatorAuthority
  IN  IF parseAddressFlagThrows(flags.operatorAuthority) THEN Threw(ErrAddress)
      ELSE IF flags.receiver # undefined /\ parseAddressFlagThrows(flags.receiver.text)
      THEN Threw(ErrAddress)
      ELSE [state |-> "returned",
            receiverAddress |-> receiverAddress,
            instruction |->
              getDeleteOperatorInstruction(signer, signer, findOperator(signer),
                                           findOperator(operatorAuthority))]

\* the answer to "Continue deleting the operator? (y/n)"
confirms(answer) ==
  toLowerCase(trim(answer)) \in {<< "y" >>, << "y", "e", "s" >>}

deleteOperator(flags) ==
  LET built == deleteOperatorInstruction(flags.signer, flags)
  IN  IF built.state = "threw" THEN built
      ELSE [state |-> "returned", receiverAddress |-> built.receiverAddress,
            instruction |-> built.instruction, sent |-> confirms(flags.answer)]
deleteOperatorMultisig(flags) ==
  LET built == deleteOperatorInstruction(flags.multisig, flags)
  IN  IF built.state = "threw" THEN built
      ELSE [state |-> "returned", receiverAddress |-> built.receiverAddress,
            instruction |-> built.instruction, sent |-> FALSE]

ReceiverFlags == {undefined, StringV("not an address")} \union {StringV(a) : a \in Addresses}
DeleteFlags ==
  {[command |-> "delete-operator", signer |-> s, multisig |-> "none",
    operatorAuthority |-> o, receiver |-> r, answer |-> a] :
     s \in {"Alice", "Bob"}, o \in Addresses \union {"not an address"},
     r \in ReceiverFlags, a \in {<< "y" >>, << "Y", "E", "S", " " >>, << "n" >>}}
  \union
  {[command |-> "delete-operator-multisig", signer |-> "none", multisig |-> m,
    operatorAuthority |-> o, receiver |-> r, answer |-> << >>] :
     m \in {"Alice", "Bob"}, o \in Addresses \union {"not an address"},
     r \in ReceiverFlags}

(***************************************************************************)
(* The commands that take a token amount: mint (commands/mint.ts),         *)
(* mint-multisig, redeem-multisig, withdraw and withdraw-multisig, each up *)
(* to the instruction it builds.  --amount and --min-amount-out are texts  *)
(* that the flag trims.                                                    *)
(***************************************************************************)
ErrAmountZero == "Amount must be greater than zero."
minAmountOutThrows(flag) == flag # undefined /\ parseU64StringFlagThrows(trim(flag.text))
minAmountOutOf(flag) ==
  IF flag # undefined THEN parseU64StringFlag(trim(flag.text)) ELSE << >>
AmountInstruction(program, amount, minAmountOut) ==
  [state |-> "returned",
   instruction |-> Instruction(program, [amount |-> amount, minAmountOut |-> minAmountOut])]

\* Mint.run: the amount is parsed and used as it is
mintRun(flags) ==
  IF parseU64StringFlagThrows(trim(flags.amount.text)) THEN Threw(ErrU64)
  ELSE IF minAmountOutThrows(flags.minAmountOut) THEN Threw(ErrU64)
  ELSE AmountInstruction("mint", parseU64StringFlag(trim(flags.amount.text)),
                         minAmountOutOf(flags.minAmountOut))

\* MintMultisig.run and RedeemMultisig.run
mintMultisigRun(flags) ==
  IF parseU64StringFlagThrows(trim(flags.amount.text)) THEN Threw(ErrU64)
  ELSE IF parseU64StringFlag(trim(flags.amount.text)) = << >> THEN Threw(ErrAmountZero)
  ELSE IF minAmountOutThrows(flags.minAmountOut) THEN Threw(ErrU64)
  ELSE AmountInstruction("mint", parseU64StringFlag(trim(flags.amount.text)),
                         minAmountOutOf(flags.minAmountOut))
redeemMultisigRun(flags) ==
  IF parseU64StringFlagThrows(trim(flags.amount.text)) THEN Threw(ErrU64)
  ELSE IF parseU64StringFlag(trim(flags.amount.text)) = << >> THEN Threw(ErrAmountZero)
  ELSE IF minAmountOutThrows(flags.minAmountOut) THEN Threw(ErrU64)
  ELSE AmountInstruction("redeem", parseU64StringFlag(trim(flags.amount.text)),
                         minAmountOutOf(flags.minAmountOut))

\* Withdraw.run and WithdrawMultisig.run: no --min-amount-out
withdrawRun(flags) ==
  IF parseU64StringFlagThrows(trim(flags.amount.text)) THEN Threw(ErrU64)
  ELSE IF parseU64StringFlag(trim(flags.amount.text)) = << >> THEN Threw(ErrAmountZero)
  ELSE AmountInstruction("withdraw", parseU64StringFlag(trim(flags.amount.text)), << >>)
withdrawMultisigRun(flags) ==
  IF parseU64StringFlagThrows(trim(flags.amount.text)) THEN Threw(ErrU64)
  ELSE IF parseU64StringFlag(trim(flags.amount.text)) = << >> THEN Threw(ErrAmountZero)
  ELSE AmountInstruction("withdraw", parseU64StringFlag(trim(flags.amount.text)), << >>)

AmountCommands ==
  {"mint", "mint-multisig", "redeem-multisig", "withdraw", "withdraw-multisig"}
AmountTexts ==
  {StringV(<< "0" >>), StringV(<< "0", "0" >>), StringV(<< " ", "0", " " >>),
   StringV(<< "1" >>), StringV(<< "1", "0", "0", "0" >>), StringV(<< "-", "1" >>),
   StringV(<< "x" >>), StringV(<< >>)}
MinAmountOutTexts ==
  {undefined, StringV(<< "0" >>), StringV(<< "5" >>), StringV(<< "x" >>)}
AmountFlags ==
  {[command |-> c, amount |-> a, minAmountOut |-> m] :
     c \in AmountCommands, a \in AmountTexts, m \in MinAmountOutTexts}

\* the value of the variables a specification does not use
NoTx == [name |-> "none", instructions |-> << >>, next |-> 1]
NoChain == [kind |-> "none"]
NoCliInput == [command |-> "none"]
NoRelInput == [kind |-> "none"]

(***************************************************************************)
(* State: the input of the quote calls and what each call gave; the input  *)
(* of the period-limit check, the clock, what the last check gave and the  *)
(* time it read; the text of --peg-price-usd and what the command built of *)
(* it; the role of an operator account and the text printed for it; the    *)
(* accounts of the program and the transaction being applied to them; the  *)
(* flags of a command and what it built; the input of a pair of quotes and *)
(* what they gave.                                                         *)
(***************************************************************************)
VARIABLES input, mintQuote, redeemQuote, limitInput, now, limitResult, limitReadNow,
          pegFlag, pegAction, roleValue, roleText, chain, tx, cliInput, cliResult,
          relInput, relResult

quoteVars == <<input, mintQuote, redeemQuote>>
limitVars == <<limitInput, now, limitResult, limitReadNow>>
pegVars == <<pegFlag, pegAction>>
roleVars == <<roleValue, roleText>>
ledgerVars == <<chain, tx>>
cliVars == <<cliInput, cliResult>>
relVars == <<relInput, relResult>>
vars ==
  <<input, mintQuote, redeemQuote, limitInput, now, limitResult, limitReadNow,
    pegFlag, pegAction, roleValue, roleText, chain, tx, cliInput, cliResult,
    relInput, relResult>>

QuoteIdle ==
  /\ input = NoQuoteInput
  /\ mintQuote = NotCalled
  /\ redeemQuote = NotCalled

LimitIdle ==
  /\ limitInput = NoLimitInput
  /\ now = 0
  /\ limitResult = NotCalled
  /\ limitReadNow = 0

PegIdle ==
  /\ pegFlag = << >>
  /\ pegAction = NotCalled

RoleIdle ==
  /\ roleValue = 0
  /\ roleText = NotCalled

LedgerIdle ==
  /\ chain = NoChain
  /\ tx = NoTx

CliIdle ==
  /\ cliInput = NoCliInput
  /\ cliResult = NotCalled

RelIdle ==
  /\ relInput = NoRelInput
  /\ relResult = NotCalled

Init ==
  /\ input \in QuoteInputs
  /\ mintQuote = NotCalled
  /\ redeemQuote = NotCalled
  /\ LimitIdle
  /\ PegIdle
  /\ RoleIdle
  /\ LedgerIdle
  /\ CliIdle
  /\ RelIdle

GetMintQuote ==
  /\ mintQuote.state = "idle"
  /\ mintQuote' = getMintQuote(input)
  /\ UNCHANGED <<input, redeemQuote, limitVars, pegVars, roleVars, ledgerVars, cliVars, relVars>>

GetRedeemQuote ==
  /\ redeemQuote.state = "idle"
  /\ redeemQuote' = getRedeemQuote(input)
  /\ UNCHANGED <<input, mintQuote, limitVars, pegVars, roleVars, ledgerVars, cliVars, relVars>>

Next == GetMintQuote \/ GetRedeemQuote

Spec == Init /\ [][Next]_vars

(***************************************************************************)
(* The period-limit check under a running clock.                           *)
(***************************************************************************)
LimitInit ==
  /\ limitInput \in LimitInputs
  /\ now = 7200
  /\ limitResult = NotCalled
  /\ limitReadNow = 0
  /\ QuoteIdle
  /\ PegIdle
  /\ RoleIdle
  /\ LedgerIdle
  /\ CliIdle
  /\ RelIdle

\* a check that starts a new window on the config slots as it reads them
FindPeriodLimitViolationRolling ==
  /\ limitResult' = findPeriodLimitViolation(limitInput, now)
  /\ limitReadNow' = now
  /\ limitInput' =
       [limitInput EXCEPT !.config.periodLimits =
          [i \in DOMAIN @ |-> [@[i] EXCEPT !.windowStart = now]]]
  /\ UNCHANGED <<now, quoteVars, pegVars, roleVars, ledgerVars, cliVars, relVars>>

FindPeriodLimitViolation ==
  /\ limitResult' = findPeriodLimitViolation(limitInput, now)
  /\ limitReadNow' = now
  /\ UNCHANGED <<limitInput, now, quoteVars, pegVars, roleVars, ledgerVars, cliVars, relVars>>

Tick ==
  /\ \E t \in ClockTimes : t > now /\ now' = t
  /\ UNCHANGED <<limitInput, limitResult, limitReadNow, quoteVars, pegVars, roleVars, ledgerVars, cliVars, relVars>>

LimitNext == FindPeriodLimitViolation \/ Tick

LimitSpec == LimitInit /\ [][LimitNext]_vars

(***************************************************************************)
(* update-config set-peg-price-usd on a text given as --peg-price-usd.     *)
(***************************************************************************)
PegInit ==
  /\ pegFlag \in PegFlags
  /\ pegAction = NotCalled
  /\ QuoteIdle
  /\ LimitIdle
  /\ RoleIdle
  /\ LedgerIdle
  /\ CliIdle
  /\ RelIdle

SetPegPriceUsd ==
  /\ pegAction' = buildSetPegPriceUsd(parsePegPriceUsdInput(pegFlag))
  /\ UNCHANGED <<pegFlag, quoteVars, limitVars, roleVars, ledgerVars, cliVars, relVars>>

PegNext == SetPegPriceUsd

PegSpec == PegInit /\ [][PegNext]_vars

(***************************************************************************)
(* print-all-operators and create-operator print the role of an account.   *)
(***************************************************************************)
RoleInit ==
  /\ roleValue \in RoleValues
  /\ roleText = NotCalled
  /\ QuoteIdle
  /\ LimitIdle
  /\ PegIdle
  /\ LedgerIdle
  /\ CliIdle
  /\ RelIdle

FormatRole ==
  /\ roleText' = [state |-> "returned", text |-> formatRole(roleValue)]
  /\ UNCHANGED <<roleValue, quoteVars, limitVars, pegVars, ledgerVars, cliVars, relVars>>

RoleNext == FormatRole

RoleSpec == RoleInit /\ [][RoleNext]_vars

(***************************************************************************)
(* grant-all-roles-multisig builds its transaction for a managed operator  *)
(* that holds any of the named roles, and the program applies it.          *)
(***************************************************************************)
applyInstruction(accounts, instruction) ==
  CASE instruction.program = "manageOperator" ->
         [accounts EXCEPT !.operator = manageOperator(@, instruction.action)]
    [] instruction.program = "createBenefactor" ->
         [accounts EXCEPT !.benefactor = createBenefactor(instruction.action)]
    [] instruction.program = "manageBenefactor" ->
         [accounts EXCEPT !.benefactor = manageBenefactor(@, instruction.action)]
    [] instruction.program = "manageConfig" ->
         [accounts EXCEPT !.config = manageConfig(@, instruction.action)]

ApplyInstruction ==
  /\ tx.next <= Len(tx.instructions)
  /\ chain' = applyInstruction(chain, tx.instructions[tx.next])
  /\ tx' = [tx EXCEPT !.next = @ + 1]
  /\ UNCHANGED <<quoteVars, limitVars, pegVars, roleVars, cliVars, relVars>>

GrantInit ==
  /\ chain \in {[operator |-> [role |-> r, status |-> "Enabled"]] :
                  r \in 0 .. (2 ^ Len(OPERATOR_ROLE_NAMES) - 1)}
  /\ tx = NoTx
  /\ QuoteIdle
  /\ LimitIdle
  /\ PegIdle
  /\ RoleIdle
  /\ CliIdle
  /\ RelIdle

GrantAllRolesMultisig ==
  /\ tx.name = "none"
  /\ tx' = Transaction("grant-all-roles-multisig", grantAllRolesInstructions)
  /\ UNCHANGED <<chain, quoteVars, limitVars, pegVars, roleVars, cliVars, relVars>>

GrantNext == GrantAllRolesMultisig \/ ApplyInstruction

GrantSpec == GrantInit /\ [][GrantNext]_vars

(***************************************************************************)
(* create-benefactor-with-limits-multisig builds its transaction for a     *)
(* benefactor that does not exist yet, and the program applies it.         *)
(***************************************************************************)
BenefactorInit ==
  /\ chain = [benefactor |-> NoBenefactor]
  /\ tx = NoTx
  /\ cliInput \in BenefactorFlags
  /\ cliResult = NotCalled
  /\ QuoteIdle
  /\ LimitIdle
  /\ PegIdle
  /\ RoleIdle
  /\ RelIdle

CreateBenefactorWithLimitsMultisig ==
  /\ cliResult.state = "idle"
  /\ IF createBenefactorWithLimitsThrows(cliInput)
     THEN /\ cliResult' = [state |-> "threw"]
          /\ tx' = tx
     ELSE /\ cliResult' = [state |-> "returned"]
          /\ tx' = Transaction(cliInput.command,
                               createBenefactorWithLimitsInstructions(cliInput))
  /\ UNCHANGED <<chain, cliInput, quoteVars, limitVars, pegVars, roleVars, relVars>>

BenefactorNext == CreateBenefactorWithLimitsMultisig \/ ApplyInstruction

BenefactorSpec == BenefactorInit /\ [][BenefactorNext]_vars

(***************************************************************************)
(* update-config, run any number of times, each run building a transaction *)
(* of one manageConfig instruction that the program then applies.          *)
(***************************************************************************)
ConfigInit ==
  /\ chain \in {[config |-> [isMintRedeemEnabled |-> b, pegPriceUsd |-> BigOf(10000),
                             periodLimits |-> ConfigLimits]] : b \in BOOLEAN}
  /\ tx = NoTx
  /\ CliIdle
  /\ QuoteIdle
  /\ LimitIdle
  /\ PegIdle
  /\ RoleIdle
  /\ RelIdle

UpdateConfig ==
  /\ tx.next > Len(tx.instructions)
  /\ \E flags \in ConfigFlags :
       /\ cliInput' = flags
       /\ cliResult' = updateConfig(flags)
       /\ tx' = IF cliResult'.state = "threw" THEN NoTx
                ELSE Transaction(flags.command,
                                 << Instruction("manageConfig", cliResult'.action) >>)
  /\ UNCHANGED <<chain, quoteVars, limitVars, pegVars, roleVars, relVars>>

ConfigNext == UpdateConfig \/ ApplyInstruction

ConfigSpec == ConfigInit /\ [][ConfigNext]_vars

(***************************************************************************)
(* One run of update-config, update-vault or update-benefactor on a        *)
(* command line, up to the actions of the instructions it builds.          *)
(***************************************************************************)
PeriodInit ==
  /\ cliInput \in PeriodArgvs
  /\ cliResult = NotCalled
  /\ LedgerIdle
  /\ QuoteIdle
  /\ LimitIdle
  /\ PegIdle
  /\ RoleIdle
  /\ RelIdle

UpdateConfigRun ==
  /\ cliResult.state = "idle"
  /\ cliInput.command = "update-config"
  /\ cliResult' = updateConfigRun(cliInput)
  /\ UNCHANGED <<cliInput, ledgerVars, quoteVars, limitVars, pegVars, roleVars, relVars>>

UpdateVault ==
  /\ cliResult.state = "idle"
  /\ cliInput.command = "update-vault"
  /\ cliResult' = updateVaultRun(cliInput)
  /\ UNCHANGED <<cliInput, ledgerVars, quoteVars, limitVars, pegVars, roleVars, relVars>>

UpdateBenefactor ==
  /\ cliResult.state = "idle"
  /\ cliInput.command = "update-benefactor"
  /\ cliResult' = updateBenefactorRun(cliInput)
  /\ UNCHANGED <<cliInput, ledgerVars, quoteVars, limitVars, pegVars, roleVars, relVars>>

PeriodNext == UpdateConfigRun \/ UpdateVault \/ UpdateBenefactor

PeriodSpec == PeriodInit /\ [][PeriodNext]_vars

(***************************************************************************)
(* One run of delete-operator or delete-operator-multisig.                 *)
(***************************************************************************)
DeleteInit ==
  /\ cliInput \in DeleteFlags
  /\ cliResult = NotCalled
  /\ LedgerIdle
  /\ QuoteIdle
  /\ LimitIdle
  /\ PegIdle
  /\ RoleIdle
  /\ RelIdle

DeleteOperator ==
  /\ cliResult.state = "idle"
  /\ cliInput.command = "delete-operator"
  /\ cliResult' = deleteOperator(cliInput)
  /\ UNCHANGED <<cliInput, ledgerVars, quoteVars, limitVars, pegVars, roleVars, relVars>>

DeleteOperatorMultisig ==
  /\ cliResult.state = "idle"
  /\ cliInput.command = "delete-operator-multisig"
  /\ cliResult' = deleteOperatorMultisig(cliInput)
  /\ UNCHANGED <<cliInput, ledgerVars, quoteVars, limitVars, pegVars, roleVars, relVars>>

DeleteNext == DeleteOperator \/ DeleteOperatorMultisig

DeleteSpec == DeleteInit /\ [][DeleteNext]_vars

(***************************************************************************)
(* The quote functions called one after another on one input.              *)
(***************************************************************************)
PairInit ==
  /\ relInput \in PairInputs
  /\ relResult = NotCalled
  /\ QuoteIdle
  /\ LimitIdle
  /\ PegIdle
  /\ RoleIdle
  /\ LedgerIdle
  /\ CliIdle

MintThenRedeem ==
  /\ relResult.state = "idle"
  /\ relResult' = mintThenRedeem(relInput)
  /\ UNCHANGED <<relInput, quoteVars, limitVars, pegVars, roleVars, ledgerVars, cliVars>>

SplitMint ==
  /\ relResult.state = "idle"
  /\ relResult' = splitMint(relInput)
  /\ UNCHANGED <<relInput, quoteVars, limitVars, pegVars, roleVars, ledgerVars, cliVars>>

SplitRedeem ==
  /\ relResult.state = "idle"
  /\ relResult' = splitRedeem(relInput)
  /\ UNCHANGED <<relInput, quoteVars, limitVars, pegVars, roleVars, ledgerVars, cliVars>>

PairNext == MintThenRedeem \/ SplitMint \/ SplitRedeem

PairSpec == PairInit /\ [][PairNext]_vars

(***************************************************************************)
(* One run of a command that takes a token amount.                         *)
(***************************************************************************)
AmountInit ==
  /\ cliInput \in AmountFlags
  /\ cliResult = NotCalled
  /\ LedgerIdle
  /\ QuoteIdle
  /\ LimitIdle
  /\ PegIdle
  /\ RoleIdle
  /\ RelIdle

Mint ==
  /\ cliResult.state = "idle"
  /\ cliInput.command = "mint"
  /\ cliResult' = mintRun(cliInput)
  /\ UNCHANGED <<cliInput, ledgerVars, quoteVars, limitVars, pegVars, roleVars, relVars>>

MintMultisig ==
  /\ cliResult.state = "idle"
  /\ cliInput.command = "mint-multisig"
  /\ cliResult' = mintMultisigRun(cliInput)
  /\ UNCHANGED <<cliInput, ledgerVars, quoteVars, limitVars, pegVars, roleVars, relVars>>

RedeemMultisig ==
  /\ cliResult.state = "idle"
  /\ cliInput.command = "redeem-multisig"
  /\ cliResult' = redeemMultisigRun(cliInput)
  /\ UNCHANGED <<cliInput, ledgerVars, quoteVars, limitVars, pegVars, roleVars, relVars>>

Withdraw ==
  /\ cliResult.state = "idle"
  /\ cliInput.command = "withdraw"
  /\ cliResult' = withdrawRun(cliInput)
  /\ UNCHANGED <<cliInput, ledgerVars, quoteVars, limitVars, pegVars, roleVars, relVars>>

WithdrawMultisig ==
  /\ cliResult.state = "idle"
  /\ cliInput.command = "withdraw-multisig"
  /\ cliResult' = withdrawMultisigRun(cliInput)
  /\ UNCHANGED <<cliInput, ledgerVars, quoteVars, limitVars, pegVars, roleVars, relVars>>

AmountNext == Mint \/ MintMultisig \/ RedeemMultisig \/ Withdraw \/ WithdrawMultisig

AmountSpec == AmountInit /\ [][AmountNext]_vars

(***************************************************************************)
(* Vocabulary of the properties.  Floor, ceiling and minimum are stated by *)
(* their defining inequalities, not by the division the code performs.     *)
(***************************************************************************)
One == << 1 >>
IsFloorOf(q, n, d) == BigLe(BigMul(q, d), n) /\ BigLt(n, BigMul(BigAdd(q, One), d))
IsCeilOf(q, n, d) ==
  /\ BigLe(n, BigMul(q, d))
  /\ q = << >> \/ BigLt(BigMul(BigSub(q, One), d), n)
IsMinOf(m, a, b) == m \in {a, b} /\ BigLe(m, a) /\ BigLe(m, b)
Differ(a, b) == IF BigLe(a, b) THEN BigSub(b, a) ELSE BigSub(a, b)

MintCalled == mintQuote.state # "idle"
MintOk == mintQuote.state = "returned"
MintThrew == mintQuote.state = "threw"
RedeemCalled == redeemQuote.state # "idle"
RedeemOk == redeemQuote.state = "returned"
RedeemThrew == redeemQuote.state = "threw"

\* the inputs as BigInt, where they are integers
InAmount == BigOf(input.amountIn.v)
InPeg == BigOf(input.config.pegPriceUsd.v)
InOracle == BigOf(input.oraclePriceUsd.v)
InLpScale == BigPow10(input.config.decimals.v)
InVaultScale == BigPow10(input.vault.decimals.v)
Pow8 == BigPow10(8)
Pow4 == BigPow10(4)
TenThousand == BigOf(10000)

Accepted(value) == value.cls = "int" /\ (value.ty = "bigint" \/ value.ty = "number")
AcceptedNumber(value) == value.ty = "number" /\ value.cls = "int" /\ value.v >= 0

\* what getMintQuote requires besides the oracle bound and the fee
MintInputsValid ==
  /\ Accepted(input.amountIn) /\ input.amountIn.v > 0
  /\ Accepted(input.config.pegPriceUsd) /\ input.config.pegPriceUsd.v > 0
  /\ Accepted(input.oraclePriceUsd) /\ input.oraclePriceUsd.v > 0
  /\ Accepted(input.vault.minOraclePriceUsd)
  /\ AcceptedNumber(input.vault.decimals)
  /\ AcceptedNumber(input.config.decimals)
RedeemInputsValid == MintInputsValid /\ Accepted(input.vault.maxOraclePriceUsd)

AtLeastMin == input.oraclePriceUsd.v >= input.vault.minOraclePriceUsd.v * 10000
AboveMax == input.oraclePriceUsd.v > input.vault.maxOraclePriceUsd.v * 10000
BelowMin == input.oraclePriceUsd.v < input.vault.minOraclePriceUsd.v * 10000

ErrMintFee == "Mint fee exceeds the provided amount"
ErrRedeemFee == "Redeem fee exceeds the provided amount"
ErrBounds == "oraclePriceUsd is outside of the vault's configured bounds"

(***************************************************************************)
(* C1: whenever getMintQuote returns, mintAmount is the minimum of the     *)
(* oracleAmount and the oneToOneAmount it returns, so it exceeds neither.  *)
(***************************************************************************)
C1_MintAmountIsMin ==
  MintOk => IsMinOf(mintQuote.quote.mintAmount, mintQuote.quote.oracleAmount,
                    mintQuote.quote.oneToOneAmount)

\* a quote whose oracle valuation is the strictly smaller one
C1_Witness ==
  /\ MintOk
  /\ BigLt(mintQuote.quote.oracleAmount, mintQuote.quote.oneToOneAmount)
  /\ mintQuote.quote.mintAmount = mintQuote.quote.oracleAmount
  /\ mintQuote.quote.mintAmount # << >>

(***************************************************************************)
(* C2: for a fee rate r in 0..10000 and an accepted amount a, both quotes  *)
(* return feeAmount = ceil(a*r/10000) <= a and netAmount = a - feeAmount;  *)
(* at r = 10000 the fee is the whole amount and the net amount is 0.       *)
(***************************************************************************)
FeeAsClaimed(q, r) ==
  /\ IsCeilOf(q.feeAmount, BigMul(InAmount, BigOf(r)), TenThousand)
  /\ BigLe(q.feeAmount, InAmount)
  /\ BigAdd(q.netAmount, q.feeAmount) = InAmount
  /\ r = 10000 => q.feeAmount = InAmount /\ q.netAmount = << >>

C2_FeeIsCeiling ==
  /\ MintOk => /\ input.benefactor.mintFeeRate.v \in 0 .. 10000
               /\ FeeAsClaimed(mintQuote.quote, input.benefactor.mintFeeRate.v)
  /\ RedeemOk => /\ input.benefactor.redeemFeeRate.v \in 0 .. 10000
                 /\ FeeAsClaimed(redeemQuote.quote, input.benefactor.redeemFeeRate.v)

\* 3 units at 25 and 30 basis points: both fees round up from below 1 to 1
C2_Witness ==
  /\ MintOk /\ RedeemOk
  /\ input.amountIn.v = 3
  /\ input.benefactor.mintFeeRate.v = 25
  /\ input.benefactor.redeemFeeRate.v = 30
  /\ mintQuote.quote.feeAmount = One
  /\ redeemQuote.quote.feeAmount = One

(***************************************************************************)
(* C3 as stated: the mint oracleAmount is                                  *)
(*   floor(amountIn * oraclePriceUsd * lpScale * 10^8                      *)
(*         / (pegPriceUsd * vaultScale * 10^8)).                           *)
(***************************************************************************)
C3_OracleAmountAsStated ==
  MintOk =>
    IsFloorOf(mintQuote.quote.oracleAmount,
              BigMul(BigMul(BigMul(InAmount, InOracle), InLpScale), Pow8),
              BigMul(BigMul(InPeg, InVaultScale), Pow8))

(***************************************************************************)
(* C3 amended: the factor of the numerator is PEG_PRICE_SCALE = 10^4:      *)
(*   oracleAmount = floor(amountIn * oraclePriceUsd * lpScale * 10^4       *)
(*                        / (pegPriceUsd * vaultScale * 10^8)).            *)
(***************************************************************************)
C3_OracleAmountAmended ==
  MintOk =>
    IsFloorOf(mintQuote.quote.oracleAmount,
              BigMul(BigMul(BigMul(InAmount, InOracle), InLpScale), Pow4),
              BigMul(BigMul(InPeg, InVaultScale), Pow8))

\* different decimals and a quotient that is rounded down
C3_Witness ==
  /\ MintOk
  /\ input.vault.decimals.v = 9 /\ input.config.decimals.v = 6
  /\ mintQuote.quote.oracleAmount # << >>
  /\ BigMul(mintQuote.quote.oracleAmount, BigMul(BigMul(InPeg, InVaultScale), Pow8))
       # BigMul(BigMul(BigMul(InAmount, InOracle), InLpScale), Pow4)

(***************************************************************************)
(* C4: with equal decimals, peg price 10000 and oracle price 10^8, a mint  *)
(* quote has oracleAmount = amountIn and oneToOneAmount = netAmount =      *)
(* mintAmount, for every fee rate in 0..10000; and 1000000000 at 25 bps    *)
(* gives fee 2500000, net 997500000, oracle 1000000000, one-to-one and     *)
(* mint amount 997500000.                                                  *)
(***************************************************************************)
AtParity ==
  /\ MintInputsValid
  /\ input.config.decimals.v = input.vault.decimals.v
  /\ input.config.pegPriceUsd.v = 10000
  /\ input.oraclePriceUsd.v = 100000000
  /\ AtLeastMin
  /\ AcceptedNumber(input.benefactor.mintFeeRate)
  /\ input.benefactor.mintFeeRate.v <= 10000

IsScenario ==
  /\ AtParity
  /\ input.amountIn.v = 1000000000
  /\ input.config.decimals.v = 6
  /\ input.benefactor.mintFeeRate.v = 25

C4_ParityQuote ==
  /\ MintCalled /\ AtParity =>
       /\ MintOk
       /\ mintQuote.quote.oracleAmount = InAmount
       /\ mintQuote.quote.oneToOneAmount = mintQuote.quote.netAmount
       /\ mintQuote.quote.mintAmount = mintQuote.quote.netAmount
  /\ MintCalled /\ IsScenario =>
       /\ MintOk
       /\ mintQuote.quote.feeAmount = BigOf(2500000)
       /\ mintQuote.quote.netAmount = BigOf(997500000)
       /\ mintQuote.quote.oracleAmount = BigOf(1000000000)
       /\ mintQuote.quote.oneToOneAmount = BigOf(997500000)
       /\ mintQuote.quote.mintAmount = BigOf(997500000)

C4_Witness ==
  /\ MintOk /\ IsScenario
  /\ mintQuote.quote.mintAmount = BigOf(997500000)

(***************************************************************************)
(* C5 as stated: when oraclePriceUsd = pegPriceUsd * 10^4, the mint        *)
(* oracleAmount and oneToOneAmount differ by at most 1 unit.               *)
(***************************************************************************)
OracleAtPeg == input.oraclePriceUsd.v = input.config.pegPriceUsd.v * 10000

C5_WithinOneAsStated ==
  MintOk /\ OracleAtPeg =>
    BigLe(Differ(mintQuote.quote.oracleAmount, mintQuote.quote.oneToOneAmount), One)

(***************************************************************************)
(* C5 amended: when oraclePriceUsd = pegPriceUsd * 10^4, the peg price is  *)
(* 10^4 and the mint fee rate is 0, oracleAmount = oneToOneAmount.         *)
(***************************************************************************)
C5_EqualAtUnitPegNoFee ==
  MintOk /\ OracleAtPeg /\ input.config.pegPriceUsd.v = 10000
         /\ input.benefactor.mintFeeRate.v = 0 =>
    mintQuote.quote.oracleAmount = mintQuote.quote.oneToOneAmount

C5_Witness ==
  /\ MintOk /\ OracleAtPeg
  /\ input.config.pegPriceUsd.v = 10000
  /\ input.benefactor.mintFeeRate.v = 0
  /\ input.vault.decimals.v # input.config.decimals.v
  /\ mintQuote.quote.oracleAmount # << >>
  /\ mintQuote.quote.oracleAmount = mintQuote.quote.oneToOneAmount

(***************************************************************************)
(* C6: getRedeemQuote fails for every oracle price below the vault minimum *)
(* or above the vault maximum (both scaled by 10^4); getMintQuote is       *)
(* stopped by the bounds only below the minimum, so above the maximum the  *)
(* same input gives a mint quote and a failed redeem quote.                *)
(***************************************************************************)
MintFeeFits ==
  AcceptedNumber(input.benefactor.mintFeeRate) /\ input.benefactor.mintFeeRate.v <= 10000

C6_BoundsAsymmetry ==
  /\ RedeemCalled /\ RedeemInputsValid /\ (BelowMin \/ AboveMax) =>
       RedeemThrew /\ redeemQuote.error = ErrBounds
  /\ MintCalled /\ MintInputsValid /\ BelowMin =>
       MintThrew /\ mintQuote.error = ErrBounds
  /\ MintCalled /\ MintInputsValid /\ MintFeeFits /\ AtLeastMin => MintOk
  /\ MintCalled /\ RedeemCalled /\ RedeemInputsValid /\ MintFeeFits
       /\ AtLeastMin /\ AboveMax =>
       MintOk /\ RedeemThrew

C6_Witness ==
  /\ RedeemInputsValid /\ AtLeastMin /\ AboveMax
  /\ MintOk
  /\ RedeemThrew /\ redeemQuote.error = ErrBounds

(***************************************************************************)
(* C7: whenever getRedeemQuote returns, redeemAmount is the minimum of     *)
(*   oracleAmount = floor(amountIn * peg * vaultScale * 10^8               *)
(*                        / (oracle * lpScale * 10^4)) and                 *)
(*   oneToOneAmount = floor(netAmount * peg * vaultScale / (10^4 * lpScale)),*)
(* so the payout never exceeds the peg-rate value of the net amount.       *)
(***************************************************************************)
C7_RedeemAmountIsMin ==
  RedeemOk =>
    /\ IsMinOf(redeemQuote.quote.redeemAmount, redeemQuote.quote.oracleAmount,
               redeemQuote.quote.oneToOneAmount)
    /\ IsFloorOf(redeemQuote.quote.oracleAmount,
                 BigMul(BigMul(BigMul(InAmount, InPeg), InVaultScale), Pow8),
                 BigMul(BigMul(InOracle, InLpScale), Pow4))
    /\ IsFloorOf(redeemQuote.quote.oneToOneAmount,
                 BigMul(BigMul(redeemQuote.quote.netAmount, InPeg), InVaultScale),
                 BigMul(Pow4, InLpScale))
    /\ BigLe(redeemQuote.quote.redeemAmount, redeemQuote.quote.oneToOneAmount)

\* collateral priced above the peg: the oracle valuation is the smaller payout
C7_Witness ==
  /\ RedeemOk
  /\ BigLt(redeemQuote.quote.oracleAmount, redeemQuote.quote.oneToOneAmount)
  /\ redeemQuote.quote.redeemAmount = redeemQuote.quote.oracleAmount
  /\ redeemQuote.quote.redeemAmount # << >>

(***************************************************************************)
(* C8: getMintQuote throws, and returns no quote, when amountIn <= 0,      *)
(* pegPriceUsd <= 0, oraclePriceUsd <= 0, oraclePriceUsd below the vault   *)
(* minimum times 10^4, or when one of the values it reads (amountIn, the   *)
(* peg price, the oracle price, the vault minimum, the two decimals, the   *)
(* mint fee rate) is a number that is not a finite integer; a quote is     *)
(* returned only when none of these holds.                                 *)
(***************************************************************************)
NotFiniteInteger(value) == value.ty = "number" /\ value.cls # "int"
NonPositive(value) == value.cls = "int" /\ value.v <= 0

MintRejects ==
  \/ NonPositive(input.amountIn)
  \/ NonPositive(input.config.pegPriceUsd)
  \/ NonPositive(input.oraclePriceUsd)
  \/ /\ input.oraclePriceUsd.cls = "int"
     /\ input.vault.minOraclePriceUsd.cls = "int"
     /\ BelowMin
  \/ NotFiniteInteger(input.amountIn)
  \/ NotFiniteInteger(input.config.pegPriceUsd)
  \/ NotFiniteInteger(input.oraclePriceUsd)
  \/ NotFiniteInteger(input.vault.minOraclePriceUsd)
  \/ NotFiniteInteger(input.vault.decimals)
  \/ NotFiniteInteger(input.config.decimals)
  \/ NotFiniteInteger(input.benefactor.mintFeeRate)

C8_MintPreconditions ==
  /\ MintCalled /\ MintRejects => MintThrew
  /\ MintOk => ~MintRejects

\* an oracle price that is positive and below the vault's minimum
C8_Witness ==
  /\ MintThrew /\ mintQuote.error = ErrBounds
  /\ input.amountIn.v > 0 /\ input.config.pegPriceUsd.v > 0
  /\ input.oraclePriceUsd.v > 0 /\ BelowMin

(***************************************************************************)
(* C9: with a fee rate above 10000, a positive amount and every other      *)
(* precondition met, getMintQuote and getRedeemQuote throw the             *)
(* fee-exceeds-amount error; with a rate of at most 10000 they never do.   *)
(***************************************************************************)
C9_FeeExceedsAmount ==
  /\ MintCalled /\ MintInputsValid /\ AtLeastMin
       /\ AcceptedNumber(input.benefactor.mintFeeRate)
       /\ input.benefactor.mintFeeRate.v > 10000 =>
       MintThrew /\ mintQuote.error = ErrMintFee
  /\ MintThrew /\ mintQuote.error = ErrMintFee =>
       input.benefactor.mintFeeRate.v > 10000
  /\ RedeemCalled /\ RedeemInputsValid /\ AtLeastMin /\ ~AboveMax
       /\ AcceptedNumber(input.benefactor.redeemFeeRate)
       /\ input.benefactor.redeemFeeRate.v > 10000 =>
       RedeemThrew /\ redeemQuote.error = ErrRedeemFee
  /\ RedeemThrew /\ redeemQuote.error = ErrRedeemFee =>
       input.benefactor.redeemFeeRate.v > 10000

\* 1 unit at 10001 basis points: the fee is 2
C9_Witness ==
  /\ input.amountIn.v = 1
  /\ input.benefactor.mintFeeRate.v = 10001
  /\ MintThrew /\ mintQuote.error = ErrMintFee
  /\ RedeemThrew /\ redeemQuote.error = ErrRedeemFee

(***************************************************************************)
(* Vocabulary of the period-limit properties.                              *)
(***************************************************************************)
LimitReturned == limitResult.state = "returned"
Owners == {"config", "vault", "benefactor"}
LimitsOf(owner) ==
  IF owner = "config" THEN limitInput.config.periodLimits
  ELSE IF owner = "vault" THEN limitInput.vault.periodLimits
  ELSE limitInput.benefactor.periodLimits

\* the slots that are not disabled, as <<owner, index>>
EnabledSlots ==
  {p \in Owners \X (1 .. (MaxSlots + 1)) :
     /\ p[2] <= Len(LimitsOf(p[1]))
     /\ LimitsOf(p[1])[p[2]].durationSeconds > 0}
TheSlot == LET p == CHOOSE q \in EnabledSlots : TRUE IN LimitsOf(p[1])[p[2]]

SlotMax(slot) ==
  IF limitInput.operation = "mint" THEN slot.maxMintAmount ELSE slot.maxRedeemAmount
SlotUsed(slot) ==
  IF limitInput.operation = "mint" THEN slot.mintedAmount ELSE slot.redeemedAmount
Unexpired(slot) == limitReadNow - slot.windowStart < slot.durationSeconds

\* one enabled slot in all, with a maximum, inside its window when the call
\* read the clock
SingleActiveSlot ==
  /\ LimitReturned
  /\ Cardinality(EnabledSlots) = 1
  /\ SlotMax(TheSlot) > 0
  /\ Unexpired(TheSlot)

(***************************************************************************)
(* C10 as stated: for a single active slot the check reports a violation   *)
(* exactly when amount > max - used, and the violation carries             *)
(* remainingAmount = max - used.                                           *)
(***************************************************************************)
C10_RemainingAsStated ==
  SingleActiveSlot =>
    /\ limitResult.found <=> limitInput.amount.v > SlotMax(TheSlot) - SlotUsed(TheSlot)
    /\ limitResult.found =>
         limitResult.remainingAmount = SlotMax(TheSlot) - SlotUsed(TheSlot)

(***************************************************************************)
(* C10 amended: for a single active slot the check reports a violation     *)
(* exactly when amount > max - used, and the violation carries             *)
(* remainingAmount = max - used, or 0 when used exceeds max; with max 1000 *)
(* and 900 used, 150 is a violation with remainingAmount 100 and 100 is    *)
(* none.                                                                   *)
(***************************************************************************)
C10_SingleSlotViolation ==
  SingleActiveSlot =>
    LET max == SlotMax(TheSlot)
        used == SlotUsed(TheSlot)
        amount == limitInput.amount.v
    IN  /\ limitResult.found <=> amount > max - used
        /\ limitResult.found =>
             limitResult.remainingAmount = (IF max - used > 0 THEN max - used ELSE 0)
        /\ max = 1000 /\ used = 900 /\ amount = 150 =>
             limitResult.found /\ limitResult.remainingAmount = 100
        /\ max = 1000 /\ used = 900 /\ amount = 100 => ~limitResult.found

\* the slot of the example, 1800 s into its window, asked for 150
C10_Witness ==
  /\ SingleActiveSlot
  /\ TheSlot = Slot(3600, 1000, 500, 900, 450, 5400)
  /\ limitReadNow = 7200
  /\ limitInput.operation = "mint"
  /\ limitInput.amount.v = 150
  /\ limitResult.found /\ limitResult.remainingAmount = 100


(***************************************************************************)
(* C11: when now - windowStart >= durationSeconds, equality included, for  *)
(* a slot with durationSeconds > 0 and a maximum above 0, the check takes  *)
(* the used amount as 0 whatever the persisted counters hold: the slot     *)
(* blocks an amount exactly when amount > max, and then reports max as the *)
(* remaining amount.                                                       *)
(***************************************************************************)
SingleExpiredSlot ==
  /\ LimitReturned
  /\ Cardinality(EnabledSlots) = 1
  /\ SlotMax(TheSlot) > 0
  /\ limitReadNow - TheSlot.windowStart >= TheSlot.durationSeconds

C11_ExpiredWindowResets ==
  SingleExpiredSlot =>
    /\ limitResult.found <=> limitInput.amount.v > SlotMax(TheSlot)
    /\ limitResult.found => limitResult.remainingAmount = SlotMax(TheSlot)

\* exactly at the end of the window, with 900 of 1000 on the counter, 150 passes
C11_Witness ==
  /\ SingleExpiredSlot
  /\ TheSlot = Slot(3600, 1000, 500, 900, 450, 5400)
  /\ limitReadNow - TheSlot.windowStart = TheSlot.durationSeconds
  /\ limitInput.operation = "mint"
  /\ limitInput.amount.v = 150
  /\ ~limitResult.found


(***************************************************************************)
(* What a slot leaves for the requested operation when the call read the   *)
(* clock, and the slots of an owner that block the requested amount.       *)
(***************************************************************************)
SlotRemaining(slot) ==
  IF SlotMax(slot) = 0 THEN 0
  ELSE IF Unexpired(slot) THEN SlotMax(slot) - SlotUsed(slot)
  ELSE SlotMax(slot)
SlotBlocks(slot) ==
  slot.durationSeconds > 0 /\ limitInput.amount.v > SlotRemaining(slot)
BlockingIndexes(owner) ==
  {i \in 1 .. Len(LimitsOf(owner)) : SlotBlocks(LimitsOf(owner)[i])}
FirstBlocking(owner) ==
  LimitsOf(owner)[CHOOSE i \in BlockingIndexes(owner) :
                    \A j \in BlockingIndexes(owner) : i <= j]
ReportedRemaining(owner) ==
  LET r == SlotRemaining(FirstBlocking(owner)) IN IF r > 0 THEN r ELSE 0
ReportsViolation(owner) ==
  /\ limitResult.found
  /\ limitResult.account = owner
  /\ limitResult.remainingAmount = ReportedRemaining(owner)

(***************************************************************************)
(* C12: the check looks at the config slots, then the vault slots, then    *)
(* the benefactor slots, each list in index order, and returns the first   *)
(* blocking slot: a blocking config slot is reported as "config" whatever  *)
(* the vault and the benefactor hold, and with blocking slots at the vault *)
(* and the benefactor and none at the config the violation is "vault"      *)
(* with the remaining amount of the vault slot.                            *)
(***************************************************************************)
C12_FirstViolationInOrder ==
  LimitReturned =>
    /\ limitResult.found <=> \E owner \in Owners : BlockingIndexes(owner) # {}
    /\ BlockingIndexes("config") # {} => ReportsViolation("config")
    /\ BlockingIndexes("config") = {} /\ BlockingIndexes("vault") # {} =>
         ReportsViolation("vault")
    /\ /\ BlockingIndexes("config") = {}
       /\ BlockingIndexes("vault") = {}
       /\ BlockingIndexes("benefactor") # {}
       => ReportsViolation("benefactor")

\* a config slot that lets 150 pass, a vault slot with 100 left and a
\* benefactor slot with nothing left
C12_Witness ==
  /\ LimitReturned
  /\ limitInput.amount.v = 150
  /\ Len(LimitsOf("config")) > 0
  /\ BlockingIndexes("config") = {}
  /\ BlockingIndexes("vault") # {}
  /\ BlockingIndexes("benefactor") # {}
  /\ ReportedRemaining("vault") = 100
  /\ ReportedRemaining("benefactor") = 0
  /\ limitResult.found
  /\ limitResult.account = "vault"
  /\ limitResult.remainingAmount = 100


(***************************************************************************)
(* C13: a slot with durationSeconds = 0 never produces a violation,        *)
(* whatever the amount, the operation, its maxima, its counters and its    *)
(* windowStart: a check whose slots are all disabled reports none, and a   *)
(* reported violation always has an enabled slot of the reported owner     *)
(* that blocks the amount.                                                 *)
(***************************************************************************)
SomeSlot == \E owner \in Owners : Len(LimitsOf(owner)) > 0

C13_DisabledSlotNeverBlocks ==
  LimitReturned =>
    /\ SomeSlot /\ EnabledSlots = {} => ~limitResult.found
    /\ limitResult.found =>
         \E p \in EnabledSlots :
            p[1] = limitResult.account /\ SlotBlocks(LimitsOf(p[1])[p[2]])

\* disabled slots at every owner, two of them at the config, asked for
\* more than their maximum
C13_Witness ==
  /\ LimitReturned
  /\ EnabledSlots = {}
  /\ Len(LimitsOf("config")) = 2
  /\ Len(LimitsOf("vault")) = 1
  /\ Len(LimitsOf("benefactor")) = 1
  /\ limitInput.amount.v > SlotMax(LimitsOf("config")[1])
  /\ ~limitResult.found


(***************************************************************************)
(* C14: a slot with durationSeconds > 0 whose maximum for the requested    *)
(* operation is 0 blocks every positive amount, also when its window has   *)
(* expired and when its counters are 0: the check then reports a           *)
(* violation, and with no other enabled slot the violation carries         *)
(* remainingAmount 0.                                                      *)
(***************************************************************************)
ZeroMaxSlots == {p \in EnabledSlots : SlotMax(LimitsOf(p[1])[p[2]]) = 0}

C14_ZeroMaxBlocks ==
  LimitReturned =>
    /\ ZeroMaxSlots # {} => limitResult.found
    /\ ZeroMaxSlots # {} /\ Cardinality(EnabledSlots) = 1 =>
         limitResult.found /\ limitResult.remainingAmount = 0

\* the only enabled slot has maximum 0 and counters 0, and its window is over
C14_Witness ==
  /\ LimitReturned
  /\ Cardinality(EnabledSlots) = 1
  /\ SlotMax(TheSlot) = 0
  /\ SlotUsed(TheSlot) = 0
  /\ ~Unexpired(TheSlot)
  /\ limitInput.amount.v = 100
  /\ limitResult.found
  /\ limitResult.remainingAmount = 0


(***************************************************************************)
(* C15: every violation the check reports has remainingAmount >= 0; when   *)
(* the used amount of an unexpired slot exceeds its maximum (the maximum   *)
(* was lowered after use) the violation carries remainingAmount 0, never a *)
(* negative number.                                                        *)
(***************************************************************************)
C15_RemainingNeverNegative ==
  LimitReturned =>
    /\ limitResult.found => limitResult.remainingAmount >= 0
    /\ SingleActiveSlot /\ SlotUsed(TheSlot) > SlotMax(TheSlot) =>
         limitResult.found /\ limitResult.remainingAmount = 0

\* 1100 used of a maximum of 1000, inside the window
C15_Witness ==
  /\ SingleActiveSlot
  /\ SlotUsed(TheSlot) = 1100
  /\ SlotMax(TheSlot) = 1000
  /\ limitInput.amount.v = 100
  /\ limitResult.found
  /\ limitResult.remainingAmount = 0


(***************************************************************************)
(* C16: the check fails, before it looks at any slot, when the amount is   *)
(* <= 0 or the operation is neither "mint" nor "redeem"; whether it fails, *)
(* and with which error, is decided by the amount and the operation alone  *)
(* and not by what the slots hold.                                         *)
(***************************************************************************)
LimitCalled == limitResult.state # "idle"
LimitThrew == limitResult.state = "threw"
AmountIsInteger == limitInput.amount.cls = "int"
KnownOperation == limitInput.operation \in {"mint", "redeem"}
ErrAmountNotPositive == "amount must be greater than zero"
ErrOperation == "operation must be either \"mint\" or \"redeem\""

C16_InvalidRequestFails ==
  LimitCalled =>
    /\ AmountIsInteger /\ limitInput.amount.v <= 0 =>
         LimitThrew /\ limitResult.error = ErrAmountNotPositive
    /\ AmountIsInteger /\ limitInput.amount.v > 0 /\ ~KnownOperation =>
         LimitThrew /\ limitResult.error = ErrOperation
    /\ AmountIsInteger /\ limitInput.amount.v > 0 /\ KnownOperation => LimitReturned

\* amount 0 on slots of which the first would block every mint
C16_Witness ==
  /\ LimitThrew
  /\ limitInput.amount.v = 0
  /\ AmountIsInteger
  /\ limitInput.operation = "mint"
  /\ Len(LimitsOf("config")) = 2
  /\ LimitsOf("config")[1].durationSeconds > 0
  /\ SlotMax(LimitsOf("config")[1]) = 0
  /\ limitResult.error = ErrAmountNotPositive


(***************************************************************************)
(* C17: the check takes the evaluation time as an input and reads no clock *)
(* itself, so for fixed arguments two calls return the same result         *)
(* whenever they are made: once a call has given a result, a later call on *)
(* the same arguments gives that result again.                             *)
(***************************************************************************)
C17_SameResultWheneverCalled ==
  [][LimitCalled => limitResult' = limitResult]_vars


(***************************************************************************)
(* C18: the check leaves every field of every period-limit slot of the     *)
(* config, the vault and the benefactor as it was, whether it returns a    *)
(* violation, returns none or fails.                                       *)
(***************************************************************************)
C18_SlotsUnchanged ==
  [][\A owner \in Owners : LimitsOf(owner)' = LimitsOf(owner)]_vars

\* a call that let 100 pass on a slot whose window is over: the slot still
\* holds its old windowStart and its counter
C18_Witness ==
  /\ SingleExpiredSlot
  /\ limitInput.amount.v = 100
  /\ ~limitResult.found
  /\ TheSlot.windowStart = 5400
  /\ TheSlot.mintedAmount = 900
  /\ TheSlot.redeemedAmount = 450


(***************************************************************************)
(* Vocabulary of the peg price property.  A decimal text is a text of      *)
(* digits, or two texts of digits with one point between them; the text of *)
(* the flag is what stands between its first and its last character that   *)
(* is not a blank.                                                         *)
(***************************************************************************)
PegCalled == pegAction.state # "idle"
PegBuilt == pegAction.state = "returned"
PegRejected == pegAction.state = "threw"

Text(str) == [i \in 1 .. Len(str) |-> str[i]]
PegText ==
  LET inked == {i \in 1 .. Len(pegFlag) : pegFlag[i] # " "}
  IN  IF inked = {} THEN << >>
      ELSE SubSeq(pegFlag,
                  CHOOSE i \in inked : \A j \in inked : i <= j,
                  CHOOSE i \in inked : \A j \in inked : i >= j)

IsDigitText(t) == Len(t) > 0 /\ \A i \in 1 .. Len(t) : t[i] \in DigitChars
PointsOf(t) == {k \in 1 .. Len(t) : t[k] = "."}
WholeDigits(t) ==
  IF PointsOf(t) = {} THEN t
  ELSE SubSeq(t, 1, (CHOOSE k \in PointsOf(t) : TRUE) - 1)
FractionDigits(t) ==
  IF PointsOf(t) = {} THEN << >>
  ELSE SubSeq(t, (CHOOSE k \in PointsOf(t) : TRUE) + 1, Len(t))
IsDecimalText(t) ==
  /\ Cardinality(PointsOf(t)) <= 1
  /\ IsDigitText(WholeDigits(t))
  /\ PointsOf(t) = {} \/ IsDigitText(FractionDigits(t))

\* the number a text of digits denotes
RECURSIVE NumberOf(_)
NumberOf(t) ==
  IF t = << >> THEN 0
  ELSE 10 * NumberOf(SubSeq(t, 1, Len(t) - 1)) + DigitValue(t[Len(t)])

\* the value of a decimal text of at most 4 fraction digits and a whole
\* part below 10, times 10^4
ScaledBy10000(t) ==
  10000 * NumberOf(WholeDigits(t))
    + NumberOf(FractionDigits(t)) * 10 ^ (4 - Len(FractionDigits(t)))

AcceptablePeg(t) ==
  /\ IsDecimalText(t)
  /\ Len(FractionDigits(t)) <= 4
  /\ NumberOf(WholeDigits(t)) < 10
  /\ ScaledBy10000(t) \in 1 .. 19999

RolePrinted == roleText.state = "returned"
HasBit(mask, i) == (mask \div (2 ^ i)) % 2 = 1
NamedBits == 0 .. 8

HexDigitValue(c) == (CHOOSE k \in 1 .. 16 : RadixDigits[k] = c) - 1
RECURSIVE HexNumberOf(_)
HexNumberOf(t) ==
  IF t = << >> THEN 0
  ELSE (16 * HexNumberOf(SubSeq(t, 1, Len(t) - 1))) + HexDigitValue(t[Len(t)])

RECURSIVE SumOfBits(_)
SumOfBits(bits) ==
  IF bits = {} THEN 0
  ELSE LET b == CHOOSE x \in bits : TRUE IN (2 ^ b) + SumOfBits(bits \ {b})

PrintedRoles == {roleText.text.roles[k] : k \in 1 .. Len(roleText.text.roles)}
PrintedBits == {r.bit : r \in PrintedRoles}
HasUnknownPart == roleText.text.unknown # << >>
PrintedUnknownMask ==
  IF HasUnknownPart THEN HexNumberOf(roleText.text.unknown[1]) ELSE 0

(***************************************************************************)
(* C20: formatRole reports every set bit of a role mask: the set bits      *)
(* among 0..8 appear under the names of their roles, all higher set bits   *)
(* appear together in the "unknown mask" part, and the named bits and the  *)
(* unknown mask together equal the raw value; a mask with bit 10 set       *)
(* reports an unknown mask that holds bit 10.                              *)
(***************************************************************************)
C20_RoleBitsAllReported ==
  RolePrinted =>
    /\ \A i \in NamedBits :
         HasBit(roleValue, i) <=>
           [name |-> OPERATOR_ROLE_NAMES[i + 1], bit |-> i] \in PrintedRoles
    /\ PrintedBits \subseteq NamedBits
    /\ Cardinality(PrintedRoles) = Len(roleText.text.roles)
    /\ HasUnknownPart <=> roleValue >= 2 ^ 9
    /\ \A i \in NamedBits : ~HasBit(PrintedUnknownMask, i)
    /\ SumOfBits(PrintedBits) + PrintedUnknownMask = roleValue
    /\ NumberOf(roleText.text.raw) = roleValue
    /\ HasBit(roleValue, 10) => HasUnknownPart /\ HasBit(PrintedUnknownMask, 10)

\* admin and bit 10: "admin (bit 0); unknown mask 0x400 (raw 1025)"
C20_Witness ==
  /\ RolePrinted
  /\ roleValue = 1025
  /\ roleText.text.roles = << [name |-> "admin", bit |-> 0] >>
  /\ roleText.text.unknown = << << "4", "0", "0" >> >>
  /\ roleText.text.raw = << "1", "0", "2", "5" >>


(***************************************************************************)
(* Vocabulary of the properties of transactions.                           *)
(***************************************************************************)
TxQueued(name) == tx.name = name
TxApplied(name) == tx.name = name /\ tx.next > Len(tx.instructions)

(***************************************************************************)
(* C21: after the instructions of the grant-all-roles-multisig transaction *)
(* (one SetRole for each named role, in the order of OPERATOR_ROLE_NAMES)  *)
(* are applied in sequence to the managed operator, that operator holds    *)
(* all nine named roles.                                                   *)
(***************************************************************************)
C21_AllNineRolesGranted ==
  TxApplied("grant-all-roles-multisig") =>
    \A i \in NamedBits : HasBit(chain.operator.role, i)


(***************************************************************************)
(* C22: create-benefactor-with-limits-multisig builds one transaction      *)
(* whose instructions are, in this order, CreateBenefactor,                *)
(* UpdatePeriodLimit(index 0, 3600 s), UpdatePeriodLimit(index 1,          *)
(* 86400 s), SetStatus(Active); applied in that order the benefactor is    *)
(* Active only in states where both limit slots are already set, and it    *)
(* ends Active.                                                            *)
(***************************************************************************)
BenefactorTx == "create-benefactor-with-limits-multisig"
IsUpdatePeriodLimit(instruction, index, duration) ==
  /\ instruction.program = "manageBenefactor"
  /\ instruction.action.kind = "UpdatePeriodLimit"
  /\ instruction.action.index = index
  /\ instruction.action.durationSeconds = duration
BothLimitSlotsSet ==
  /\ chain.benefactor.periodLimits[1].durationSeconds = BigOf(3600)
  /\ chain.benefactor.periodLimits[1].maxMintAmount = tx.instructions[2].action.maxMintAmount
  /\ chain.benefactor.periodLimits[1].maxRedeemAmount
       = tx.instructions[2].action.maxRedeemAmount
  /\ chain.benefactor.periodLimits[2].durationSeconds = BigOf(86400)
  /\ chain.benefactor.periodLimits[2].maxMintAmount = tx.instructions[3].action.maxMintAmount
  /\ chain.benefactor.periodLimits[2].maxRedeemAmount
       = tx.instructions[3].action.maxRedeemAmount

ApplyingStep == tx.next <= Len(tx.instructions) /\ tx'.next = tx.next + 1
RunIs(action) == cliInput.command = "update-config" /\ cliInput.action = action
NamedSlot == cliInput.index.v + 1
SlotNumbers == 1 .. 4
SameLimits(a, b) ==
  /\ a.durationSeconds = b.durationSeconds
  /\ a.maxMintAmount = b.maxMintAmount
  /\ a.maxRedeemAmount = b.maxRedeemAmount
SameCounters(a, b) ==
  /\ a.mintedAmount = b.mintedAmount
  /\ a.redeemedAmount = b.redeemedAmount
  /\ a.windowStart = b.windowStart
OtherSlotsKept ==
  \A k \in SlotNumbers \ {NamedSlot} :
    chain'.config.periodLimits[k] = chain.config.periodLimits[k]
RestOfConfigKept ==
  /\ chain'.config.isMintRedeemEnabled = chain.config.isMintRedeemEnabled
  /\ chain'.config.pegPriceUsd = chain.config.pegPriceUsd

(***************************************************************************)
(* C23: UpdatePeriodLimit on slot i changes only the duration and the two  *)
(* maxima of slot i and leaves the counters and the window start of slot i *)
(* and every other slot as they were; ResetPeriodLimit on slot i changes   *)
(* only the counters and the window start of slot i.                       *)
(***************************************************************************)
C23_PeriodLimitFrame ==
  [][/\ ApplyingStep /\ RunIs("update-period-limit") =>
          /\ OtherSlotsKept
          /\ RestOfConfigKept
          /\ SameCounters(chain'.config.periodLimits[NamedSlot],
                          chain.config.periodLimits[NamedSlot])
     /\ ApplyingStep /\ RunIs("reset-period-limit") =>
          /\ OtherSlotsKept
          /\ RestOfConfigKept
          /\ SameLimits(chain'.config.periodLimits[NamedSlot],
                        chain.config.periodLimits[NamedSlot])]_vars

\* slot 1 updated to 60 seconds with its counters kept, after slot 0 was
\* reset with its limits kept
C23_Witness ==
  /\ TxApplied("update-config")
  /\ RunIs("update-period-limit")
  /\ chain.config.periodLimits[2] =
       PeriodLimit(BigOf(60), BigOf(100), BigOf(200), BigOf(9), << >>, 2000)
  /\ chain.config.periodLimits[1] =
       PeriodLimit(BigOf(3600), BigOf(500), BigOf(400), << >>, << >>, 0)


(***************************************************************************)
(* C24: after Pause the flag is false whatever it was, a second Pause      *)
(* leaves it false, and the flag becomes true only through UpdatePauseFlag *)
(* with isMintRedeemEnabled = true; the pause action the CLI builds        *)
(* carries no parameter and its update-pause-flag action carries exactly   *)
(* the boolean that --mint-redeem-enabled spells.                          *)
(***************************************************************************)
SpellsTrue(flag) == toLowerCase(trim(flag.text)) \in TrueWords
RunBuilt(action) == RunIs(action) /\ cliResult.state = "returned"

C24_PauseForcesDisabled ==
  [][/\ ApplyingStep /\ RunIs("pause") => ~chain'.config.isMintRedeemEnabled
     /\ ~chain.config.isMintRedeemEnabled /\ chain'.config.isMintRedeemEnabled =>
          /\ ApplyingStep
          /\ RunIs("update-pause-flag")
          /\ tx.instructions[tx.next].action =
               [kind |-> "UpdatePauseFlag", isMintRedeemEnabled |-> TRUE]
          /\ SpellsTrue(cliInput.mintRedeemEnabled)
     /\ RunBuilt("pause") => cliResult.action = [kind |-> "Pause"]
     /\ RunBuilt("update-pause-flag") =>
          cliResult.action = [kind |-> "UpdatePauseFlag",
                              isMintRedeemEnabled |->
                                SpellsTrue(cliInput.mintRedeemEnabled)]]_vars

\* the flag false after a pause
C24_Witness ==
  /\ TxApplied("update-config")
  /\ RunBuilt("pause")
  /\ ~chain.config.isMintRedeemEnabled


(***************************************************************************)
(* Vocabulary of the claims on the period-limit command lines: the actions *)
(* a run has built.                                                        *)
(***************************************************************************)
CliBuilt == cliResult.state = "returned"
BuiltActions ==
  IF cliInput.command = "update-config" THEN << cliResult.action >> ELSE cliResult.actions
IsPeriodLimitAction(action) == action.kind \in {"UpdatePeriodLimit", "ResetPeriodLimit"}

(***************************************************************************)
(* C25: every UpdatePeriodLimit and ResetPeriodLimit action the CLI        *)
(* builds, for Config, Vault or Benefactor, carries an index in 0..3; an   *)
(* index of 4 or more is rejected before any instruction is built.         *)
(***************************************************************************)
C25_IndexWithinSlots ==
  CliBuilt =>
    \A k \in 1 .. Len(BuiltActions) :
      IsPeriodLimitAction(BuiltActions[k]) => BuiltActions[k].index \in 0 .. 3


(***************************************************************************)
(* C29: the CLI validates --duration-seconds of update-period-limit the    *)
(* same way for Config, Vault and Benefactor: a command line that one of   *)
(* the three commands accepts is accepted by the other two, so a duration  *)
(* of 0 accepted for one is accepted for all.                              *)
(***************************************************************************)
PeriodCommands == {"update-config", "update-vault", "update-benefactor"}
RunAs(command) ==
  CASE command = "update-config" -> updateConfigRun(cliInput)
    [] command = "update-vault" -> updateVaultRun(cliInput)
    [] command = "update-benefactor" -> updateBenefactorRun(cliInput)
IndexNamesSlot ==
  cliInput.index \in {StringV(<< "0" >>), StringV(<< "1" >>), StringV(<< "2" >>),
                      StringV(<< "3" >>)}

C29_SameDurationCheck ==
  /\ CliBuilt
  /\ cliInput.command \in PeriodCommands
  /\ cliInput.actions = << "update-period-limit" >>
  /\ IndexNamesSlot
  => \A command \in PeriodCommands : RunAs(command).state = "returned"


(***************************************************************************)
(* C26: delete-operator and delete-operator-multisig build a               *)
(* DeleteOperator instruction that sends the reclaimed rent to --receiver  *)
(* when it is given and to the deleted operator's authority otherwise; two *)
(* runs that differ only in --receiver, naming different receivers, build  *)
(* different instructions.  The rent of the closed account goes to the     *)
(* instruction's payer, the only account of the instruction that is not    *)
(* an operator or its authority.                                           *)
(***************************************************************************)
RentReceiver(instruction) == instruction.action.payer
ReceiverAsked(flags) ==
  IF flags.receiver # undefined THEN flags.receiver.text ELSE flags.operatorAuthority
RunWith(flags) ==
  IF flags.command = "delete-operator" THEN deleteOperator(flags)
  ELSE deleteOperatorMultisig(flags)

C26_RentGoesToReceiver ==
  CliBuilt /\ cliInput.command \in {"delete-operator", "delete-operator-multisig"} =>
    /\ RentReceiver(cliResult.instruction) = ReceiverAsked(cliInput)
    /\ \A r \in ReceiverFlags :
         LET other == [cliInput EXCEPT !.receiver = r]
         IN  /\ RunWith(other).state = "returned"
             /\ ReceiverAsked(other) # ReceiverAsked(cliInput)
             => RunWith(other).instruction # cliResult.instruction


(***************************************************************************)
(* C27: minting and then redeeming creates no collateral: if getMintQuote  *)
(* of an amount a > 0 returns a mintAmount m > 0 and getRedeemQuote of m,  *)
(* under the same decimals, fee rates, peg price and oracle price, returns *)
(* a quote, its redeemAmount is at most a.                                 *)
(***************************************************************************)
RoundTripDone ==
  /\ relResult.state = "roundTrip"
  /\ relResult.mint.state = "returned"
  /\ relResult.redeem.state = "returned"
AmountGiven == BigOf(relInput.quote.amountIn.v)

C27_RoundTripNeverGains ==
  RoundTripDone => BigLe(relResult.redeem.quote.redeemAmount, AmountGiven)

\* a round trip with fees that gives back less than was put in, and more
\* than nothing
C27_Witness ==
  /\ RoundTripDone
  /\ relInput.quote.benefactor.mintFeeRate.v = 25
  /\ relResult.redeem.quote.redeemAmount # << >>
  /\ BigLt(relResult.redeem.quote.redeemAmount, AmountGiven)

(***************************************************************************)
(* C28: splitting an amount never yields more: for amounts a and b whose   *)
(* quotes and the quote of a + b are all returned, the mintAmount of a     *)
(* plus the mintAmount of b is at most the mintAmount of a + b, and the    *)
(* same holds of the redeemAmount of getRedeemQuote.                       *)
(***************************************************************************)
SplitDone(kind) ==
  /\ relResult.state = kind
  /\ relResult.whole.state = "returned"
  /\ relResult.first.state = "returned"
  /\ relResult.second.state = "returned"

C28_SplitNeverGains ==
  /\ SplitDone("splitMint") =>
       BigLe(BigAdd(relResult.first.quote.mintAmount, relResult.second.quote.mintAmount),
             relResult.whole.quote.mintAmount)
  /\ SplitDone("splitRedeem") =>
       BigLe(BigAdd(relResult.first.quote.redeemAmount,
                    relResult.second.quote.redeemAmount),
             relResult.whole.quote.redeemAmount)

\* two parts that together mint strictly less than the whole
C28_Witness ==
  /\ SplitDone("splitMint")
  /\ relResult.first.quote.mintAmount # << >>
  /\ BigLt(BigAdd(relResult.first.quote.mintAmount, relResult.second.quote.mintAmount),
           relResult.whole.quote.mintAmount)


(***************************************************************************)
(* C30: every command that takes a token amount (mint, mint-multisig,      *)
(* redeem-multisig, withdraw, withdraw-multisig) rejects an --amount that  *)
(* spells zero before it builds an instruction.                            *)
(***************************************************************************)
SpellsZero(flag) ==
  LET digits == {k \in 1 .. Len(flag.text) : flag.text[k] # " "}
  IN  digits # {} /\ \A k \in digits : flag.text[k] = "0"

C30_ZeroAmountRejected ==
  cliInput.command \in AmountCommands /\ SpellsZero(cliInput.amount) => ~CliBuilt

=============================================================================
